---- MODULE Spec2Model ----
(***************************************************************************)
(* kapa-cli: the secure local state store (security.ts, config.ts,         *)
(* history.ts) and the streaming chat client (api.js consumeSse).          *)
(*                                                                         *)
(* Strings.  A string is a sequence of text pieces.  In the SSE decoder a  *)
(* piece is a lexeme of the wire format ("data:", "\n", a JSON text); in   *)
(* the secret codec a piece is a UTF-16 code unit ("HS"/"LS" are the two   *)
(* surrogate halves) or a run of well-formed text.                         *)
(***************************************************************************)
EXTENDS Integers, Sequences, FiniteSets, TLC

VARIABLES
    \* ---- api.js consumeSse ----
    blocks,         \* the event blocks the server sends (names, in order)
    tail,           \* what the server sends after the last complete block
    body,           \* bytes not yet handed out by reader.read()
    buffer,         \* consumeSse: buffer
    lastPayload,    \* consumeSse: lastPayload
    combinedText,   \* consumeSse: combinedText
    events,         \* the calls made to handler, in order
    ssePc,          \* "reading" | "returned"
    sseVia,         \* "" | "done" (return at [DONE]) | "eof" (return after the loop)
    sseResult,      \* the value consumeSse returned
    \* ---- api.js sendChat ----
    send,           \* the sendChat call: its options, position, HTTP exchange and outcome
    \* ---- format.ts normalizeResponse ----
    normCall,       \* the normalizeResponse call: its payload, position and result
    \* ---- security.ts ----
    env,            \* process.env
    secStored,      \* a value at rest: what the last encodeSecret returned, or that value edited
    secOrigin,      \* the encodeSecret call secStored comes from, and how it was edited since
    secCall,        \* the last encodeSecret / decodeSecret call and its outcome
    secIssued,      \* the envelopes encryptWithKey returned, with the random bytes drawn
    \* ---- config.ts ----
    configFile,     \* config.json
    cfgCall,        \* the last config call and its outcome
    cfgPlain,       \* profiles whose apiKey was last written with no key and plaintext authorised
    \* ---- history.ts ----
    historyFile,    \* history.jsonl
    historyDisabledMessage,
    hisCall,        \* the last history call and its outcome
    hisLog,         \* for each line of historyFile, the appendHistory call that wrote it
    \* ---- index.ts startInteractiveSession, handleAsk ----
    session         \* the session's locals, the input not yet read, the handleAsk calls

sseVars == <<blocks, tail, body, buffer, lastPayload, combinedText, events,
             ssePc, sseVia, sseResult, send, normCall, session>>

apiVars == <<blocks, tail, body, buffer, lastPayload, combinedText, events,
             ssePc, sseVia, sseResult, send, normCall>>

secVars == <<secStored, secOrigin, secCall, secIssued>>

cfgVars == <<configFile, cfgCall, cfgPlain>>

hisVars == <<historyFile, historyDisabledMessage, hisCall, hisLog>>

vars == <<blocks, tail, body, buffer, lastPayload, combinedText, events,
          ssePc, sseVia, sseResult, env, secStored, secOrigin, secCall, secIssued,
          configFile, cfgCall, cfgPlain,
          historyFile, historyDisabledMessage, hisCall, hisLog, send, normCall, session>>

(***************************************************************************)
(* Bounds                                                                  *)
(***************************************************************************)
MaxBlocks == 3      \* complete event blocks in one response body
MaxChunk == 2       \* a read returns 1..MaxChunk pieces, or all that is left

(***************************************************************************)
(* JavaScript values                                                       *)
(***************************************************************************)
NoFields == [f \in {} |-> f]

JsVal(t, s, o, a) == [t |-> t, s |-> s, o |-> o, a |-> a]
Undefined == JsVal("undefined", "", NoFields, <<>>)
Null == JsVal("null", "", NoFields, <<>>)
Str(s) == JsVal("string", s, NoFields, <<>>)
Num(s) == JsVal("number", s, NoFields, <<>>)
Obj(o) == JsVal("object", "", o, <<>>)
Arr(a) == JsVal("array", "", NoFields, a)

\* typeof v === 'object'
TypeofObject(v) == v.t \in {"object", "array", "null"}

\* ToBoolean(v)
Truthy(v) ==
    CASE v.t \in {"undefined", "null"} -> FALSE
      [] v.t = "string" -> v.s # ""
      [] v.t = "number" -> v.s \notin {"0", "NaN"}
      [] OTHER -> TRUE

\* v.f (property read; v is neither null nor undefined)
Get(v, f) == IF v.t \in {"object", "array"} /\ f \in DOMAIN v.o THEN v.o[f] ELSE Undefined

\* v.f = x
Put(v, f, x) == [v EXCEPT !.o = [g \in (DOMAIN v.o) \cup {f} |-> IF g = f THEN x ELSE v.o[g]]]

RECURSIVE Join(_)
Join(pieces) == IF pieces = <<>> THEN "" ELSE Head(pieces) \o Join(Tail(pieces))

(***************************************************************************)
(* The response bodies of the model                                        *)
(***************************************************************************)
NL == "\n"
DONE == "[DONE]"

BlockNames == {"msgA", "msgB", "ans", "foo", "null", "raw", "ping", "done"}

BlockPieces(b) ==
    CASE b = "msgA"  -> <<"event:", " ", "message", NL, "data:", " ", "{\"text\":\"a\"}">>
      [] b = "msgB"  -> <<"event:", "message", NL, "data:", "{\"text\":", NL, "data:", "\"b\"}">>
      [] b = "ans"   -> <<"data:", "{\"answer\":\"S\"}">>
      [] b = "foo"   -> <<"data:", "{\"foo\":1}">>
      [] b = "null"  -> <<"data:", "null">>
      [] b = "raw"   -> <<"data:", "hello">>
      [] b = "ping"  -> <<":", "ping">>
      [] b = "done"  -> <<"data:", " ", DONE>>

Tails == {<<>>, <<"data:", "{\"text\":\"z\"}", NL>>}

RECURSIVE Wire(_)
Wire(bs) == IF bs = <<>> THEN <<>> ELSE BlockPieces(Head(bs)) \o <<NL, NL>> \o Wire(Tail(bs))

BlockSeqs == UNION {[1..n -> BlockNames] : n \in 0..MaxBlocks}

(***************************************************************************)
(* api.js                                                                  *)
(***************************************************************************)
\* JSON.parse on the payload texts of the model; ok = FALSE is the SyntaxError
JsonParse(s) ==
    CASE s = "{\"text\":\"a\"}"   -> [ok |-> TRUE, v |-> Obj([text |-> Str("a")])]
      [] s = "{\"text\":\"b\"}"   -> [ok |-> TRUE, v |-> Obj([text |-> Str("b")])]
      [] s = "{\"text\":\"z\"}"   -> [ok |-> TRUE, v |-> Obj([text |-> Str("z")])]
      [] s = "{\"answer\":\"S\"}" -> [ok |-> TRUE, v |-> Obj([answer |-> Str("S")])]
      [] s = "{\"foo\":1}"        -> [ok |-> TRUE, v |-> Obj([foo |-> Num("1")])]
      [] s = "null"               -> [ok |-> TRUE, v |-> Null]
      [] OTHER                    -> [ok |-> FALSE, v |-> Undefined]

IsSpace(p) == p = " "

\* String.prototype.trim on a sequence of pieces
RECURSIVE TrimLeft(_)
TrimLeft(pieces) ==
    IF pieces # <<>> /\ IsSpace(Head(pieces)) THEN TrimLeft(Tail(pieces)) ELSE pieces

RECURSIVE TrimRight(_)
TrimRight(pieces) ==
    IF pieces # <<>> /\ IsSpace(pieces[Len(pieces)])
    THEN TrimRight(SubSeq(pieces, 1, Len(pieces) - 1))
    ELSE pieces

Trim(pieces) == Join(TrimRight(TrimLeft(pieces)))

\* chunk.split('\n')
RECURSIVE SplitLines(_)
SplitLines(chunk) ==
    IF \A i \in 1..Len(chunk) : chunk[i] # NL
    THEN <<chunk>>
    ELSE LET i == CHOOSE k \in 1..Len(chunk) :
                      chunk[k] = NL /\ \A j \in 1..(k - 1) : chunk[j] # NL
         IN <<SubSeq(chunk, 1, i - 1)>> \o SplitLines(SubSeq(chunk, i + 1, Len(chunk)))

\* the body of parseSseChunk's loop, for one line
ParseLine(event, line) ==
    IF line # <<>> /\ Head(line) = "event:"
    THEN [event EXCEPT !.type = Trim(Tail(line))]
    ELSE IF line # <<>> /\ Head(line) = "data:"
    THEN LET data == Trim(Tail(line))
         IN [event EXCEPT !.payload =
                IF Truthy(event.payload) THEN Str(event.payload.s \o data) ELSE Str(data)]
    ELSE event

RECURSIVE ParseLines(_, _)
ParseLines(event, lines) ==
    IF lines = <<>> THEN event ELSE ParseLines(ParseLine(event, Head(lines)), Tail(lines))

parseSseChunk(chunk) ==
    ParseLines([type |-> "message", payload |-> Undefined], SplitLines(chunk))

ExtractCandidates ==
    <<"delta", "answer_delta", "answerChunk", "answer_chunk", "content_delta", "text", "message">>

\* choices.map((choice) => choice.delta || choice.text || '').join('')
RECURSIVE JoinChoices(_)
JoinChoices(choices) ==
    IF choices = <<>> THEN ""
    ELSE LET c == Head(choices)
             d == IF Truthy(Get(c, "delta")) THEN Get(c, "delta").s
                  ELSE IF Truthy(Get(c, "text")) THEN Get(c, "text").s
                  ELSE ""
         IN d \o JoinChoices(Tail(choices))

extractText(payload) ==
    IF ~Truthy(payload) THEN ""
    ELSE LET hits == {i \in 1..Len(ExtractCandidates) :
                         LET value == Get(payload, ExtractCandidates[i])
                         IN value.t = "string" /\ value.s # ""}
         IN IF hits # {}
            THEN Get(payload, ExtractCandidates[CHOOSE i \in hits : \A j \in hits : i <= j]).s
            ELSE IF Get(payload, "choices").t = "array"
            THEN JoinChoices(Get(payload, "choices").a)
            ELSE ""

\* buffer.indexOf('\n\n'), 1-based; 0 when there is none
Boundary(buf) ==
    LET hits == {i \in 1..(Len(buf) - 1) : buf[i] = NL /\ buf[i + 1] = NL}
    IN IF hits = {} THEN 0 ELSE CHOOSE i \in hits : \A j \in hits : i <= j

DoneEvent == [type |-> "done", payload |-> Undefined, text |-> "", hasText |-> FALSE]

\* api.js 86-91: the [DONE] block
OnDoneKeepReading(st) == [st EXCEPT !.events = Append(@, DoneEvent)]

OnDone(st) ==
    [st EXCEPT !.events = Append(@, DoneEvent),
               !.returned = TRUE,
               !.via = "done",
               !.result = IF Truthy(st.lastPayload) THEN st.lastPayload
                          ELSE Obj([answer |-> Str(st.combinedText)])]

\* api.js 92-113: any other block
OnEvent(st, event) ==
    LET parsedPayload ==
            IF event.payload.t = "string"
            THEN IF JsonParse(event.payload.s).ok THEN JsonParse(event.payload.s).v
                 ELSE event.payload
            ELSE event.payload
        text == extractText(parsedPayload)
    IN [st EXCEPT !.lastPayload = IF TypeofObject(parsedPayload) THEN parsedPayload ELSE @,
                  !.combinedText = IF text # "" THEN @ \o text ELSE @,
                  !.events = Append(@, [type |-> event.type, payload |-> parsedPayload,
                                        text |-> text, hasText |-> TRUE])]

\* api.js 82-114: the inner while loop
RECURSIVE Drain(_)
Drain(st) ==
    LET boundary == Boundary(st.buffer)
    IN IF st.returned \/ boundary = 0 THEN st
       ELSE LET chunk == SubSeq(st.buffer, 1, boundary - 1)
                rest == [st EXCEPT !.buffer = SubSeq(@, boundary + 2, Len(@))]
                event == parseSseChunk(chunk)
            IN IF event.payload = Str(DONE)
               THEN Drain(OnDone(rest))
               ELSE Drain(OnEvent(rest, event))

\* api.js 116-119: the return after the read loop
AtEofNoInject(lp, ct) ==
    IF Truthy(lp) THEN lp ELSE Obj([answer |-> Str(ct)])

AtEofOverwrite(lp, ct) ==
    LET injected == IF Truthy(lp) /\ ct # "" THEN Put(lp, "answer", Str(ct)) ELSE lp
    IN IF Truthy(injected) THEN injected ELSE Obj([answer |-> Str(ct)])

AtEof(lp, ct) ==
    LET injected == IF Truthy(lp) /\ ct # "" /\ ~Truthy(Get(lp, "answer"))
                    THEN Put(lp, "answer", Str(ct))
                    ELSE lp
    IN IF Truthy(injected) THEN injected ELSE Obj([answer |-> Str(ct)])

\* ---- the values of a sendChat call ----
\* a string with the pieces it is made of (for endsWith and slice)
Url(pieces) == JsVal("string", Join(pieces), NoFields, pieces)

NoOptions ==
    [apiKey |-> Undefined, integrationId |-> Undefined, projectId |-> Undefined,
     threadId |-> Undefined, baseUrl |-> Undefined, stream |-> FALSE]

NoResponse ==
    [ok |-> FALSE, status |-> 0, contentType |-> <<>>, blocks |-> <<>>, tail |-> <<>>,
     pad |-> 0, bodyUsed |-> FALSE]

NoSnippet == [len |-> 0, ellipsis |-> FALSE]

NoResult ==
    [threw |-> FALSE, error |-> "", message |-> "", status |-> 0, snippet |-> NoSnippet,
     streamed |-> FALSE, data |-> Undefined]

\* no sendChat call is in progress
NoSend ==
    [pc |-> "idle", options |-> NoOptions, requests |-> 0, endpoint |-> <<>>,
     response |-> NoResponse, aborted |-> FALSE, result |-> NoResult]

\* ---- the values of a normalizeResponse call ----
NoNormalized ==
    [answer |-> Undefined, citations |-> Undefined, followUps |-> Undefined,
     threadId |-> Undefined, questionAnswerId |-> Undefined, raw |-> Undefined]

\* no normalizeResponse call is in progress
NoNormCall == [pc |-> "idle", payload |-> Undefined, result |-> NoNormalized]

NoThread == "<undefined>"       \* entry.threadId === undefined

\* index.ts: no interactive session, no handleAsk call
NoSession ==
    [input |-> <<>>, next |-> 1, currentThreadId |-> NoThread, paused |-> FALSE,
     processing |-> FALSE, resetPending |-> FALSE, history |-> TRUE, projectId |-> FALSE,
     asks |-> <<>>]

\* the abort signal has errored the response body stream: a read rejects
ReaderErroredNever(s) == FALSE

ReaderErrored(s) == s.aborted

SseStart ==
    /\ blocks \in BlockSeqs
    /\ tail \in Tails
    /\ body = Wire(blocks) \o tail
    /\ buffer = <<>>
    /\ lastPayload = Null
    /\ combinedText = ""
    /\ events = <<>>
    /\ ssePc = "reading"
    /\ sseVia = ""
    /\ sseResult = Undefined
    /\ send = NoSend
    /\ normCall = NoNormCall
    /\ session = NoSession

\* reader.read() returns a chunk, with what was left in the buffer forgotten
ReadChunkFreshBuffer(k) ==
    /\ ssePc = "reading"
    /\ ~ReaderErrored(send)
    /\ k \in 1..Len(body)
    /\ LET st == Drain([buffer |-> SubSeq(body, 1, k),
                        lastPayload |-> lastPayload,
                        combinedText |-> combinedText,
                        events |-> events,
                        returned |-> FALSE, via |-> "", result |-> Undefined])
       IN /\ body' = SubSeq(body, k + 1, Len(body))
          /\ buffer' = st.buffer
          /\ lastPayload' = st.lastPayload
          /\ combinedText' = st.combinedText
          /\ events' = st.events
          /\ ssePc' = IF st.returned THEN "returned" ELSE "reading"
          /\ sseVia' = st.via
          /\ sseResult' = st.result
    /\ UNCHANGED <<blocks, tail, send, normCall, session, env, secVars, cfgVars, hisVars>>

\* api.js 77-114: reader.read() returns a chunk of k pieces
ReadChunk(k) ==
    /\ ssePc = "reading"
    /\ ~ReaderErrored(send)
    /\ k \in 1..Len(body)
    /\ LET st == Drain([buffer |-> buffer \o SubSeq(body, 1, k),
                        lastPayload |-> lastPayload,
                        combinedText |-> combinedText,
                        events |-> events,
                        returned |-> FALSE, via |-> "", result |-> Undefined])
       IN /\ body' = SubSeq(body, k + 1, Len(body))
          /\ buffer' = st.buffer
          /\ lastPayload' = st.lastPayload
          /\ combinedText' = st.combinedText
          /\ events' = st.events
          /\ ssePc' = IF st.returned THEN "returned" ELSE "reading"
          /\ sseVia' = st.via
          /\ sseResult' = st.result
    /\ UNCHANGED <<blocks, tail, send, normCall, session, env, secVars, cfgVars, hisVars>>

\* reader.read() reports done, with what is left in the buffer taken as a last block
ReadEndFlush ==
    /\ ssePc = "reading"
    /\ ~ReaderErrored(send)
    /\ body = <<>>
    /\ LET st == IF buffer = <<>>
                 THEN [lastPayload |-> lastPayload, combinedText |-> combinedText,
                       events |-> events]
                 ELSE OnEvent([lastPayload |-> lastPayload, combinedText |-> combinedText,
                               events |-> events], parseSseChunk(buffer))
       IN /\ ssePc' = "returned"
          /\ sseVia' = "eof"
          /\ sseResult' = AtEof(st.lastPayload, st.combinedText)
          /\ lastPayload' = IF Truthy(st.lastPayload)
                            THEN AtEof(st.lastPayload, st.combinedText)
                            ELSE st.lastPayload
          /\ combinedText' = st.combinedText
          /\ events' = st.events
    /\ UNCHANGED <<blocks, tail, body, buffer>>
    /\ UNCHANGED <<send, normCall, session, env, secVars, cfgVars, hisVars>>

\* api.js 77-79, 116-119: reader.read() reports done
ReadEnd ==
    /\ ssePc = "reading"
    /\ ~ReaderErrored(send)
    /\ body = <<>>
    /\ ssePc' = "returned"
    /\ sseVia' = "eof"
    /\ sseResult' = AtEof(lastPayload, combinedText)
    /\ lastPayload' = IF Truthy(lastPayload) THEN AtEof(lastPayload, combinedText)
                      ELSE lastPayload
    /\ UNCHANGED <<blocks, tail, body, buffer, combinedText, events>>
    /\ UNCHANGED <<send, normCall, session, env, secVars, cfgVars, hisVars>>

SseNext ==
    \/ \E k \in 1..MaxChunk : ReadChunk(k)
    \/ ReadChunk(Len(body))
    \/ ReadEnd

\* no response body is being decoded
DecoderIdle ==
    /\ blocks = <<>>
    /\ tail = <<>>
    /\ body = <<>>
    /\ buffer = <<>>
    /\ lastPayload = Null
    /\ combinedText = ""
    /\ events = <<>>
    /\ ssePc = "idle"
    /\ sseVia = ""
    /\ sseResult = Undefined

SseIdle ==
    /\ DecoderIdle
    /\ send = NoSend
    /\ normCall = NoNormCall
    /\ session = NoSession

\* ---- api.js 1-15, 121-154: sendChat ----
DEFAULT_BASE_URL == Url(<<"https://api.kapa.ai/query/v1">>)

\* api.js 3-5
stripTrailingSlash(url) ==
    IF url.a # <<>> /\ url.a[Len(url.a)] = "/"
    THEN Url(SubSeq(url.a, 1, Len(url.a) - 1))
    ELSE url

\* api.js 6-15; threw = TRUE is the 'A project id is required' error
buildEndpointProjectFirst(baseUrl, projectId, threadId) ==
    LET root == stripTrailingSlash(IF Truthy(baseUrl) THEN baseUrl ELSE DEFAULT_BASE_URL)
    IN IF Truthy(projectId)
       THEN [threw |-> FALSE, url |-> root.a \o <<"/projects/", projectId.s, "/chat/">>]
       ELSE IF ~Truthy(threadId)
       THEN [threw |-> TRUE, url |-> <<>>]
       ELSE [threw |-> FALSE, url |-> root.a \o <<"/threads/", threadId.s, "/chat/">>]

buildEndpoint(baseUrl, projectId, threadId) ==
    LET root == stripTrailingSlash(IF Truthy(baseUrl) THEN baseUrl ELSE DEFAULT_BASE_URL)
    IN IF Truthy(threadId)
       THEN [threw |-> FALSE, url |-> root.a \o <<"/threads/", threadId.s, "/chat/">>]
       ELSE IF ~Truthy(projectId)
       THEN [threw |-> TRUE, url |-> <<>>]
       ELSE [threw |-> FALSE, url |-> root.a \o <<"/projects/", projectId.s, "/chat/">>]

\* the options a call is made with
SendOptions ==
    [apiKey : {Undefined, Str(""), Str("sk")},
     integrationId : {Undefined, Str("int")},
     projectId : {Undefined, Str("p1")},
     threadId : {Undefined, Str(""), Str("t1")},
     baseUrl : {Undefined, Url(<<>>), Url(<<"https://h/v1">>), Url(<<"https://h/v1", "/">>),
                Url(<<"https://h/v1", "/", "/">>)},
     stream : BOOLEAN]

EVENT_STREAM == "text/event-stream"

\* the responses the server gives: the body is Wire(blocks) \o tail followed by
\* pad spaces
SendBodies ==
    {<<<<>>, <<>>>>,
     <<<<>>, <<"{\"answer\":\"S\"}">>>>,
     <<<<"msgA", "ans">>, <<>>>>,
     <<<<"msgA", "done", "msgB">>, <<>>>>,
     <<<<"msgB">>, <<"data:", "{\"text\":\"z\"}", NL>>>>}

ContentTypes ==
    {<<>>, <<"application/json">>, <<EVENT_STREAM>>, <<EVENT_STREAM, "; charset=utf-8">>}

Pads == {0, 600}

Responses ==
    {[ok |-> st = 200, status |-> st, contentType |-> ct, blocks |-> b[1], tail |-> b[2],
      pad |-> p, bodyUsed |-> FALSE] :
        st \in {200, 500}, ct \in ContentTypes, b \in SendBodies, p \in Pads}

\* the text of the body and its length in UTF-16 units
BodyText(r) == Join(Wire(r.blocks) \o r.tail)
BodyLength(r) == Len(BodyText(r)) + r.pad

Min2(a, b) == IF a <= b THEN a ELSE b

\* response.text(): rejects with a TypeError once the body has been read
ResponseText(r) ==
    IF r.bodyUsed THEN [ok |-> FALSE, text |-> "", length |-> 0]
    ELSE [ok |-> TRUE, text |-> BodyText(r), length |-> BodyLength(r)]

\* response.json(): reads the whole body, then JSON.parse (trailing spaces allowed)
ResponseJson(r) == JsonParse(BodyText(r))

\* contentType.includes('text/event-stream')
IncludesEventStream(contentType) == \E i \in 1..Len(contentType) : contentType[i] = EVENT_STREAM

Failure(error, message, status, snippet) ==
    [NoResult EXCEPT !.threw = TRUE, !.error = error, !.message = message,
                     !.status = status, !.snippet = snippet]

\* api.js 145: the branch that decodes the body as an event stream
TakesStreamBranchOnContentType(options, contentType) == IncludesEventStream(contentType)

TakesStreamBranch(options, contentType) ==
    options.stream /\ IncludesEventStream(contentType)

\* api.js 122-127: the two checks made before anything else
MissingInputNone(options) == ""

MissingInput(options) ==
    IF ~Truthy(options.apiKey) THEN "Missing KAPA API key."
    ELSE IF ~Truthy(options.integrationId) THEN "Missing integration id."
    ELSE ""

\* api.js 121-138: the checks, the endpoint, and the one fetch
SendStart ==
    /\ send.pc = "called"
    /\ LET o == send.options
           missing == MissingInput(o)
           endpoint == buildEndpoint(IF Truthy(o.baseUrl) THEN o.baseUrl ELSE DEFAULT_BASE_URL,
                                     o.projectId, o.threadId)
       IN send' =
            IF missing # ""
            THEN [send EXCEPT !.pc = "done", !.result = Failure("Error", missing, 0, NoSnippet)]
            ELSE IF endpoint.threw
            THEN [send EXCEPT !.pc = "done",
                              !.result = Failure("Error", "A project id is required to start a new conversation.", 0, NoSnippet)]
            ELSE [send EXCEPT !.pc = "fetching", !.requests = @ + 1, !.endpoint = endpoint.url]
    /\ UNCHANGED <<blocks, tail, body, buffer, lastPayload, combinedText, events,
                   ssePc, sseVia, sseResult>>
    /\ UNCHANGED <<normCall, session, env, secVars, cfgVars, hisVars>>

\* api.js 139-153: the response arrives
Respond(r) ==
    /\ send.pc = "fetching"
    /\ ~send.aborted
    /\ r \in Responses
    /\ IF ~r.ok
       THEN \* 139-143
            LET text == ResponseText(r)
                snippet == IF text.length > 500 THEN [len |-> 497, ellipsis |-> TRUE]
                           ELSE [len |-> text.length, ellipsis |-> FALSE]
            IN /\ send' = [send EXCEPT !.pc = "done",
                                       !.response = [r EXCEPT !.bodyUsed = TRUE],
                                       !.result = Failure("Error", "Kapa API error", r.status, snippet)]
               /\ UNCHANGED <<blocks, tail, body, buffer, lastPayload, combinedText, events,
                              ssePc, sseVia, sseResult>>
       ELSE IF TakesStreamBranch(send.options, r.contentType)
       THEN \* 145-146: consumeSse starts on response.body
            /\ send' = [send EXCEPT !.pc = "streaming", !.response = [r EXCEPT !.bodyUsed = TRUE]]
            /\ blocks' = r.blocks
            /\ tail' = r.tail
            /\ body' = Wire(r.blocks) \o r.tail
            /\ buffer' = <<>>
            /\ lastPayload' = Null
            /\ combinedText' = ""
            /\ events' = <<>>
            /\ ssePc' = "reading"
            /\ sseVia' = ""
            /\ sseResult' = Undefined
       ELSE \* 149-153
            LET parsed == ResponseJson(r)
                used == [r EXCEPT !.bodyUsed = TRUE]
                text == ResponseText(used)
            IN /\ send' =
                    IF parsed.ok
                    THEN [send EXCEPT !.pc = "done", !.response = used,
                                      !.result = [NoResult EXCEPT !.data = parsed.v]]
                    ELSE IF text.ok
                    THEN [send EXCEPT !.pc = "done", !.response = used,
                                      !.result = Failure("Error", "Unexpected response payload", 0,
                                                         [len |-> Min2(text.length, 400),
                                                          ellipsis |-> FALSE])]
                    ELSE [send EXCEPT !.pc = "done", !.response = used,
                                      !.result = Failure("TypeError", "Body is unusable", 0, NoSnippet)]
               /\ UNCHANGED <<blocks, tail, body, buffer, lastPayload, combinedText, events,
                              ssePc, sseVia, sseResult>>
    /\ UNCHANGED <<normCall, session, env, secVars, cfgVars, hisVars>>

\* api.js 146-147: consumeSse has returned
SendReturn ==
    /\ send.pc = "streaming"
    /\ ssePc = "returned"
    /\ send' = [send EXCEPT !.pc = "done",
                            !.result = [NoResult EXCEPT !.streamed = TRUE, !.data = sseResult]]
    /\ UNCHANGED <<blocks, tail, body, buffer, lastPayload, combinedText, events,
                   ssePc, sseVia, sseResult>>
    /\ UNCHANGED <<normCall, session, env, secVars, cfgVars, hisVars>>

\* api.js 137: options.signal fires while the request or the stream is pending
Abort ==
    /\ \/ send.pc = "fetching"
       \/ send.pc = "streaming" /\ ssePc = "reading"
    /\ ~send.aborted
    /\ send' = [send EXCEPT !.aborted = TRUE]
    /\ UNCHANGED <<blocks, tail, body, buffer, lastPayload, combinedText, events,
                   ssePc, sseVia, sseResult>>
    /\ UNCHANGED <<normCall, session, env, secVars, cfgVars, hisVars>>

\* api.js 130: the pending fetch rejects with the signal's AbortError
FetchReject ==
    /\ send.pc = "fetching"
    /\ send.aborted
    /\ send' = [send EXCEPT !.pc = "done",
                            !.result = Failure("AbortError", "This operation was aborted", 0, NoSnippet)]
    /\ UNCHANGED <<blocks, tail, body, buffer, lastPayload, combinedText, events,
                   ssePc, sseVia, sseResult>>
    /\ UNCHANGED <<normCall, session, env, secVars, cfgVars, hisVars>>

\* api.js 77, 146: the pending reader.read() rejects; consumeSse and sendChat
\* have no handler for it
ReadReject ==
    /\ send.pc = "streaming"
    /\ ssePc = "reading"
    /\ send.aborted
    /\ ssePc' = "threw"
    /\ send' = [send EXCEPT !.pc = "done",
                            !.result = Failure("AbortError", "This operation was aborted", 0, NoSnippet)]
    /\ UNCHANGED <<blocks, tail, body, buffer, lastPayload, combinedText, events,
                   sseVia, sseResult>>
    /\ UNCHANGED <<normCall, session, env, secVars, cfgVars, hisVars>>

\* a call of sendChat with some options
SendCalled ==
    /\ DecoderIdle
    /\ send \in {[NoSend EXCEPT !.pc = "called", !.options = o] : o \in SendOptions}
    /\ normCall = NoNormCall
    /\ session = NoSession

SendNext ==
    \/ SendStart
    \/ \E r \in Responses : Respond(r)
    \/ \E k \in 1..MaxChunk : ReadChunk(k)
    \/ ReadEnd
    \/ SendReturn
    \/ Abort
    \/ FetchReject
    \/ ReadReject

(***************************************************************************)
(* format.ts                                                               *)
(***************************************************************************)
\* v?.f
Opt(v, f) == IF v.t \in {"undefined", "null"} THEN Undefined ELSE Get(v, f)

\* a || b || ... || z: the first truthy operand, else the last operand
RECURSIVE OrChain(_)
OrChain(operands) ==
    IF Len(operands) = 1 \/ Truthy(Head(operands)) THEN Head(operands)
    ELSE OrChain(Tail(operands))

\* format.ts 27-31
Qa(payload) ==
    OrChain(<<Opt(payload, "question_answer"), Opt(payload, "questionAnswer"),
              Opt(Opt(payload, "data"), "question_answer"), Null>>)

\* format.ts 33-39, 41-46, 48-53, 55-57: the candidates of each attribute, in order
AnswerCandidates(payload) ==
    <<Opt(Qa(payload), "answer"), Opt(Qa(payload), "answer_text"), Opt(payload, "answer"),
      Opt(payload, "message"), Opt(payload, "content")>>

CitationsCandidates(payload) ==
    <<Opt(Qa(payload), "citations"), Opt(payload, "citations"),
      Opt(payload, "source_documents"), Opt(payload, "sources")>>

FollowUpsCandidates(payload) ==
    <<Opt(Qa(payload), "follow_up_questions"), Opt(Qa(payload), "followUpQuestions"),
      Opt(Qa(payload), "followup_questions"), Opt(payload, "followUpQuestions")>>

ThreadIdCandidates(payload) ==
    <<Opt(Qa(payload), "thread_id"), Opt(payload, "thread_id"), Opt(payload, "threadId")>>

QuestionAnswerIdCandidates(payload) ==
    <<Opt(Qa(payload), "id"), Opt(Qa(payload), "question_answer_id"),
      Opt(payload, "question_answer_id")>>

\* format.ts 59-66: the returned object
NormalizedNullIds(answer, citations, followUps, threadId, questionAnswerId, payload) ==
    [answer |-> OrChain(<<answer, Str("")>>),
     citations |-> IF citations.t = "array" THEN citations ELSE Arr(<<>>),
     followUps |-> IF followUps.t = "array" THEN followUps ELSE Arr(<<>>),
     threadId |-> IF threadId = Undefined THEN Null ELSE threadId,
     questionAnswerId |-> IF questionAnswerId = Undefined THEN Null ELSE questionAnswerId,
     raw |-> payload]

Normalized(answer, citations, followUps, threadId, questionAnswerId, payload) ==
    [answer |-> OrChain(<<answer, Str("")>>),
     citations |-> IF citations.t = "array" THEN citations ELSE Arr(<<>>),
     followUps |-> IF followUps.t = "array" THEN followUps ELSE Arr(<<>>),
     threadId |-> threadId,
     questionAnswerId |-> questionAnswerId,
     raw |-> payload]

\* format.ts 26-67
normalizeResponse(payload) ==
    Normalized(OrChain(AnswerCandidates(payload) \o <<Str("")>>),
               OrChain(CitationsCandidates(payload) \o <<Arr(<<>>)>>),
               OrChain(FollowUpsCandidates(payload) \o <<Arr(<<>>)>>),
               OrChain(ThreadIdCandidates(payload)),
               OrChain(QuestionAnswerIdCandidates(payload)),
               payload)

\* ---- the payloads normalizeResponse is called with ----
\* an object with the fields of o that have a value
Fields(o) == [f \in {g \in DOMAIN o : o[g] # Undefined} |-> o[f]]

Merge(o, p) == [f \in (DOMAIN o) \cup (DOMAIN p) |-> IF f \in DOMAIN o THEN o[f] ELSE p[f]]

Wrappers == {"none", "question_answer", "questionAnswer", "data"}

\* the payload with the flat fields and, under the wrapper, the qa fields
Wrapped(w, qa, flat) ==
    Obj(Merge(Fields(flat),
              CASE w = "none" -> NoFields
                [] w = "question_answer" -> [question_answer |-> Obj(Fields(qa))]
                [] w = "questionAnswer" -> [questionAnswer |-> Obj(Fields(qa))]
                [] w = "data" -> [data |-> Obj([question_answer |-> Obj(Fields(qa))])]))

Cite(u) == Obj([url |-> Str(u)])

AnswerPayloads ==
    {Wrapped(w, [answer |-> qa, answer_text |-> qt], [answer |-> a, message |-> m, content |-> c]) :
        w \in Wrappers, qa \in {Undefined, Str(""), Str("qa")}, qt \in {Undefined, Str("qt")},
        a \in {Undefined, Str(""), Str("flat")}, m \in {Undefined, Str("msg")},
        c \in {Undefined, Str("cnt")}}

CitationsPayloads ==
    {Wrapped(w, [citations |-> qc], [citations |-> c, source_documents |-> d, sources |-> s]) :
        w \in Wrappers, qc \in {Undefined, Arr(<<>>), Arr(<<Cite("u1")>>), Str("none")},
        c \in {Undefined, Arr(<<>>), Arr(<<Cite("u2")>>)},
        d \in {Undefined, Arr(<<Cite("u3")>>)},
        s \in {Undefined, Arr(<<Cite("u4")>>), Cite("u5")}}

FollowUpsPayloads ==
    {Wrapped(w, [follow_up_questions |-> f1, followUpQuestions |-> f2, followup_questions |-> f3],
             [followUpQuestions |-> f4]) :
        w \in Wrappers, f1 \in {Undefined, Arr(<<>>), Arr(<<Str("q1")>>)},
        f2 \in {Undefined, Arr(<<Str("q2")>>)}, f3 \in {Undefined, Arr(<<Str("q3")>>)},
        f4 \in {Undefined, Arr(<<>>), Arr(<<Str("q4")>>)}}

IdPayloads ==
    {Wrapped(w, [thread_id |-> t1, id |-> i1, question_answer_id |-> i2],
             [thread_id |-> t2, threadId |-> t3, question_answer_id |-> i3]) :
        w \in Wrappers, t1 \in {Undefined, Str("t1")}, t2 \in {Undefined, Str(""), Str("t2")},
        t3 \in {Undefined, Str("t3")}, i1 \in {Undefined, Str("i1")},
        i2 \in {Undefined, Str("i2")}, i3 \in {Undefined, Str("i3")}}

OtherPayloads ==
    {Null, Undefined, Str("plain"), Num("7"), Arr(<<>>), Arr(<<Str("a")>>), Obj(NoFields),
     Obj([question_answer |-> Str("x"), answer |-> Str("flat")]),
     Obj([question_answer |-> Null, answer |-> Str("flat")])}

Payloads ==
    AnswerPayloads \cup CitationsPayloads \cup FollowUpsPayloads \cup IdPayloads \cup OtherPayloads

\* a call of normalizeResponse with some payload
NormalizeCalled ==
    /\ DecoderIdle
    /\ send = NoSend
    /\ normCall \in {[NoNormCall EXCEPT !.pc = "called", !.payload = p] : p \in Payloads}
    /\ session = NoSession

\* format.ts 26-67
Normalize ==
    /\ normCall.pc = "called"
    /\ normCall' = [normCall EXCEPT !.pc = "returned",
                                    !.result = normalizeResponse(normCall.payload)]
    /\ UNCHANGED <<blocks, tail, body, buffer, lastPayload, combinedText, events,
                   ssePc, sseVia, sseResult, send, session>>
    /\ UNCHANGED <<env, secVars, cfgVars, hisVars>>

NormalizeNext == Normalize

(***************************************************************************)
(* security.ts                                                             *)
(***************************************************************************)
Unset == "<unset>"      \* process.env[name] === undefined
NoKey == "<null>"       \* getScopeKey(scope) === null

Scopes == {"config", "history"}

SCOPE_KEYS(scope) ==
    CASE scope = "config"  -> <<"KAPA_VAULT_KEY", "KAPA_CONFIG_SECRET">>
      [] scope = "history" -> <<"KAPA_HISTORY_KEY", "KAPA_VAULT_KEY", "KAPA_CONFIG_SECRET">>

ALLOW_PLAINTEXT_ENV(scope) ==
    CASE scope = "config"  -> "KAPA_ALLOW_PLAINTEXT_CONFIG"
      [] scope = "history" -> "KAPA_ALLOW_PLAINTEXT_HISTORY"

EnvNames == {"KAPA_VAULT_KEY", "KAPA_CONFIG_SECRET", "KAPA_HISTORY_KEY",
             "KAPA_ALLOW_PLAINTEXT_CONFIG", "KAPA_ALLOW_PLAINTEXT_HISTORY"}

\* the values the model gives each variable
EnvValues(name) ==
    CASE name = "KAPA_VAULT_KEY"               -> {Unset, " ", "k1"}
      [] name = "KAPA_CONFIG_SECRET"           -> {Unset, "k2"}
      [] name = "KAPA_HISTORY_KEY"             -> {Unset, "k2"}
      [] name = "KAPA_ALLOW_PLAINTEXT_CONFIG"  -> {Unset, "1", "true"}
      [] name = "KAPA_ALLOW_PLAINTEXT_HISTORY" -> {Unset, "1"}

NoEnv == [name \in EnvNames |-> Unset]

\* A string at rest.  pfx: it starts with ENCRYPTION_PREFIX; fields: what follows the
\* prefix, split at '.'; text: the pieces of a string without the prefix.
Plain(text) == [pfx |-> FALSE, text |-> text, fields |-> <<>>]
Prefixed(fields) == [pfx |-> TRUE, text |-> <<>>, fields |-> fields]
EmptyStr == Plain(<<>>)

\* A base64 field, by what its bytes are: random bytes (n tells two draws apart), the
\* AES-256-GCM ciphertext or tag of plaintext pt under scrypt(pw, salt) and nonce iv,
\* the empty string, or bytes that are none of these.
Blob(kind, n, pw, salt, iv, pt) ==
    [kind |-> kind, n |-> n, pw |-> pw, salt |-> salt, iv |-> iv, pt |-> pt]
EmptyField == Blob("empty", 0, "", 0, 0, EmptyStr)
JunkField == Blob("junk", 0, "", 0, 0, EmptyStr)
SaltBlob(n) == Blob("salt", n, "", 0, 0, EmptyStr)
IvBlob(n) == Blob("iv", n, "", 0, 0, EmptyStr)
CtBlob(pw, salt, iv, pt) == IF pt = EmptyStr THEN EmptyField ELSE Blob("ct", 0, pw, salt, iv, pt)
TagBlob(pw, salt, iv, pt) == Blob("tag", 0, pw, salt, iv, pt)

\* UTF-8 of a sequence of UTF-16 code units: a surrogate pair is one code point, an
\* unpaired surrogate is replaced by U+FFFD
RECURSIVE Utf8Pieces(_)
Utf8Pieces(text) ==
    IF text = <<>> THEN <<>>
    ELSE IF Len(text) >= 2 /\ text[1] = "HS" /\ text[2] = "LS"
    THEN <<[u8 |-> "HS+LS"]>> \o Utf8Pieces(SubSeq(text, 3, Len(text)))
    ELSE IF Head(text) \in {"HS", "LS"}
    THEN <<[u8 |-> "FFFD"]>> \o Utf8Pieces(Tail(text))
    ELSE <<[u8 |-> Head(text)]>> \o Utf8Pieces(Tail(text))

Utf8Encode(value) == [value EXCEPT !.text = Utf8Pieces(@)]

RECURSIVE Utf8Text(_)
Utf8Text(bytes) ==
    IF bytes = <<>> THEN <<>>
    ELSE (IF Head(bytes).u8 = "HS+LS" THEN <<"HS", "LS">> ELSE <<Head(bytes).u8>>)
         \o Utf8Text(Tail(bytes))

Utf8Decode(bytes) == [bytes EXCEPT !.text = Utf8Text(@)]

isEncryptedValue(value) == value.pfx

getScopeKeyLastSource(e, scope) ==
    LET names == SCOPE_KEYS(scope)
        hits == {i \in 1..Len(names) : e[names[i]] \notin {Unset, "", " "}}
    IN IF hits = {} THEN NoKey ELSE e[names[CHOOSE i \in hits : \A j \in hits : i >= j]]

getScopeKey(e, scope) ==
    LET names == SCOPE_KEYS(scope)
        hits == {i \in 1..Len(names) : e[names[i]] \notin {Unset, "", " "}}
    IN IF hits = {} THEN NoKey ELSE e[names[CHOOSE i \in hits : \A j \in hits : i <= j]]

allowPlaintextWhenSet(e, scope) == e[ALLOW_PLAINTEXT_ENV(scope)] # Unset

allowPlaintext(e, scope) == e[ALLOW_PLAINTEXT_ENV(scope)] = "1"

encryptWithKeyIvFirst(value, password, salt, iv) ==
    Prefixed(<<IvBlob(iv), SaltBlob(salt),
               CtBlob(password, salt, iv, Utf8Encode(value)),
               TagBlob(password, salt, iv, Utf8Encode(value))>>)

\* salt and iv are the two randomBytes draws
encryptWithKeyFixedBytes(value, password, salt, iv) ==
    Prefixed(<<SaltBlob(1), IvBlob(1),
               CtBlob(password, 1, 1, Utf8Encode(value)),
               TagBlob(password, 1, 1, Utf8Encode(value))>>)

encryptWithKey(value, password, salt, iv) ==
    Prefixed(<<SaltBlob(salt), IvBlob(iv),
               CtBlob(password, salt, iv, Utf8Encode(value)),
               TagBlob(password, salt, iv, Utf8Encode(value))>>)

Threw == [threw |-> TRUE, value |-> EmptyStr]
Returned(value) == [threw |-> FALSE, value |-> value]

decryptWithKey(value, password) ==
    LET f == value.fields
        Falsy(k) == k > Len(f) \/ f[k] = EmptyField
    IN IF \E k \in 1..4 : Falsy(k) THEN Threw
       ELSE LET salt == f[1]
                iv == f[2]
                ciphertext == f[3]
                tag == f[4]
                authentic ==
                    /\ salt.kind = "salt"
                    /\ iv.kind = "iv"
                    /\ ciphertext.kind = "ct"
                    /\ ciphertext = CtBlob(password, salt.n, iv.n, ciphertext.pt)
                    /\ tag = TagBlob(password, salt.n, iv.n, ciphertext.pt)
            IN IF authentic THEN Returned(Utf8Decode(ciphertext.pt)) ELSE Threw

encodeSecretPlaintextFirst(e, value, scope, salt, iv) ==
    IF value = EmptyStr THEN Returned(EmptyStr)
    ELSE IF allowPlaintext(e, scope) THEN Returned(value)
    ELSE IF getScopeKey(e, scope) # NoKey
    THEN Returned(encryptWithKey(value, getScopeKey(e, scope), salt, iv))
    ELSE Threw

encodeSecret(e, value, scope, salt, iv) ==
    IF value = EmptyStr THEN Returned(EmptyStr)
    ELSE IF getScopeKey(e, scope) # NoKey
    THEN Returned(encryptWithKey(value, getScopeKey(e, scope), salt, iv))
    ELSE IF allowPlaintext(e, scope) THEN Returned(value)
    ELSE Threw

decodeSecret(e, value, scope) ==
    IF value = EmptyStr THEN Returned(EmptyStr)
    ELSE IF ~isEncryptedValue(value) THEN Returned(value)
    ELSE IF getScopeKey(e, scope) = NoKey THEN Returned(EmptyStr)
    ELSE IF decryptWithKey(value, getScopeKey(e, scope)).threw THEN Returned(EmptyStr)
    ELSE decryptWithKey(value, getScopeKey(e, scope))

(***************************************************************************)
(* The codec on its own: values are encoded, edited at rest, and decoded,  *)
(* while the environment changes.                                          *)
(***************************************************************************)
Salts == {1, 2}     \* the values randomBytes(16) takes in the model
Ivs == {1}          \* the values randomBytes(12) takes in the model

Plaintexts == {EmptyStr, Plain(<<"a", "b">>), Plain(<<"a", "HS">>), Plain(<<"HS", "LS">>),
               Prefixed(<<JunkField>>)}

Edits == {"drop", "append", "blank1", "blank3", "tag"}

Edited(value, how) ==
    LET f == value.fields
    IN CASE how = "drop"   -> Prefixed(SubSeq(f, 1, Len(f) - 1))
         [] how = "append" -> Prefixed(Append(f, JunkField))
         [] how = "blank1" -> Prefixed([f EXCEPT ![1] = EmptyField])
         [] how = "blank3" -> Prefixed([f EXCEPT ![3] = EmptyField])
         [] how = "tag"    -> Prefixed([f EXCEPT ![4] = JunkField])

NoCall == [op |-> "none", value |-> EmptyStr, scope |-> "config", key |-> NoKey,
           threw |-> FALSE, out |-> EmptyStr]
NoOrigin == [value |-> EmptyStr, key |-> NoKey, edit |-> "none"]

SecIdle ==
    /\ secStored = EmptyStr
    /\ secOrigin = NoOrigin
    /\ secCall = NoCall
    /\ secIssued = {}

SecretInit ==
    /\ env \in {e \in [EnvNames -> UNION {EnvValues(n) : n \in EnvNames}] :
                   \A n \in EnvNames : e[n] \in EnvValues(n)}
    /\ SecIdle

SecEncode(value, scope, salt, iv) ==
    LET r == encodeSecret(env, value, scope, salt, iv)
    IN /\ secCall' = [op |-> "encode", value |-> value, scope |-> scope,
                      key |-> getScopeKey(env, scope), threw |-> r.threw, out |-> r.value]
       /\ IF r.threw
          THEN UNCHANGED <<secStored, secOrigin>>
          ELSE /\ secStored' = r.value
               /\ secOrigin' = [value |-> value, key |-> getScopeKey(env, scope),
                                edit |-> "none"]
       /\ UNCHANGED env

SecDecode(scope) ==
    LET r == decodeSecret(env, secStored, scope)
    IN /\ secCall' = [op |-> "decode", value |-> secStored, scope |-> scope,
                      key |-> getScopeKey(env, scope), threw |-> r.threw, out |-> r.value]
       /\ UNCHANGED <<env, secStored, secOrigin>>

\* the value at rest is edited outside the program
SecEdit(how) ==
    /\ secOrigin.edit = "none"
    /\ secOrigin.key # NoKey
    /\ secStored.pfx
    /\ secStored' = Edited(secStored, how)
    /\ secOrigin' = [secOrigin EXCEPT !.edit = how]
    /\ secCall' = NoCall
    /\ UNCHANGED env

\* process.env is changed
SetEnv(name, value) ==
    /\ value \in EnvValues(name)
    /\ env[name] # value
    /\ env' = [env EXCEPT ![name] = value]

SecSetEnv(name, value) ==
    /\ SetEnv(name, value)
    /\ secCall' = NoCall
    /\ UNCHANGED <<secStored, secOrigin>>

SecretNext ==
    \/ \E value \in Plaintexts, scope \in Scopes, salt \in Salts, iv \in Ivs :
           SecEncode(value, scope, salt, iv) /\ UNCHANGED <<secIssued, sseVars, cfgVars, hisVars>>
    \/ \E scope \in Scopes : SecDecode(scope) /\ UNCHANGED <<secIssued, sseVars, cfgVars, hisVars>>
    \/ \E how \in Edits : SecEdit(how) /\ UNCHANGED <<secIssued, sseVars, cfgVars, hisVars>>
    \/ \E name \in EnvNames : \E value \in EnvValues(name) :
           SecSetEnv(name, value) /\ UNCHANGED <<secIssued, sseVars, cfgVars, hisVars>>

\* ---- getScopeKey on its own ----
\* environments in which each key variable is unset, empty, blank or set
ScopeKeyValues(name) ==
    CASE name = "KAPA_VAULT_KEY"     -> {Unset, "", " ", "k1"}
      [] name = "KAPA_CONFIG_SECRET" -> {Unset, "", " ", "k2"}
      [] name = "KAPA_HISTORY_KEY"   -> {Unset, "", " ", "k3"}
      [] OTHER                       -> {Unset}

ScopeKeyEnvs ==
    {e \in [EnvNames -> {Unset, "", " ", "k1", "k2", "k3"}] :
        \A n \in EnvNames : e[n] \in ScopeKeyValues(n)}

ScopeKeyInit ==
    /\ env \in ScopeKeyEnvs
    /\ SecIdle

\* part_002 109-117, as hasSecureKey, encodeSecret and decodeSecret call it
GetScopeKey(scope) ==
    /\ secCall' = [NoCall EXCEPT !.op = "key", !.scope = scope, !.key = getScopeKey(env, scope)]
    /\ UNCHANGED <<env, secStored, secOrigin, secIssued>>

ScopeKeyNext ==
    \E scope \in Scopes : GetScopeKey(scope) /\ UNCHANGED <<sseVars, cfgVars, hisVars>>

\* ---- encodeSecret with the random source ----
MaxDraws == 2       \* values randomBytes can return, for each length

DrawSalts == 1..MaxDraws
DrawIvs == 1..MaxDraws

FreshPlaintexts == {EmptyStr, Plain(<<"a", "b">>), Plain(<<"a", "HS">>)}

FreshEnvs ==
    {e \in ScopeKeyEnvs :
        /\ e["KAPA_VAULT_KEY"] \in {Unset, "k1"}
        /\ e["KAPA_CONFIG_SECRET"] = Unset
        /\ e["KAPA_HISTORY_KEY"] \in {Unset, "k3"}}

FreshInit ==
    /\ env \in FreshEnvs
    /\ SecIdle

\* encodeSecret reaches encryptWithKey (part_002 36-39)
Encrypts(e, value, scope) == value # EmptyStr /\ getScopeKey(e, scope) # NoKey

\* part_002 35-49, 81-90: randomBytes returns bytes it has not returned before
FreshEncode(value, scope, salt, iv) ==
    /\ Encrypts(env, value, scope) =>
           /\ salt \notin {r.salt : r \in secIssued}
           /\ iv \notin {r.iv : r \in secIssued}
    /\ ~Encrypts(env, value, scope) => salt = 1 /\ iv = 1
    /\ SecEncode(value, scope, salt, iv)
    /\ secIssued' =
           IF Encrypts(env, value, scope)
           THEN secIssued \cup {[value |-> value, key |-> getScopeKey(env, scope),
                                 salt |-> salt, iv |-> iv,
                                 out |-> encodeSecret(env, value, scope, salt, iv).value]}
           ELSE secIssued

FreshNext ==
    \E value \in FreshPlaintexts, scope \in Scopes, salt \in DrawSalts, iv \in DrawIvs :
        FreshEncode(value, scope, salt, iv) /\ UNCHANGED <<sseVars, cfgVars, hisVars>>

(***************************************************************************)
(* config.ts                                                               *)
(***************************************************************************)
\* a JSON value of a profile: its type and its text
AttrVal(t, v) == [t |-> t, v |-> v]

\* config.json: absent, or the JSON text of {defaultProfile, profiles}
NoFile == [exists |-> FALSE, defaultProfile |-> "", profiles |-> NoFields]

DEFAULT_CONFIG == [defaultProfile |-> "default", profiles |-> [n \in {"default"} |-> NoFields]]

readRawConfig(file) ==
    IF file.exists
    THEN [defaultProfile |-> file.defaultProfile, profiles |-> file.profiles]
    ELSE DEFAULT_CONFIG

writeRawConfig(config) ==
    [exists |-> TRUE, defaultProfile |-> config.defaultProfile, profiles |-> config.profiles]

\* String.prototype.toLowerCase on the key names and values of the model
ToLower(s) ==
    CASE s = "apiKey"    -> "apikey"
      [] s = "API-KEY"   -> "api-key"
      [] s = "projectId" -> "projectid"
      [] s = "Default"   -> "default"
      [] s = "Stream"    -> "stream"
      [] s = "Project"   -> "project"
      [] s = "Temp"      -> "temp"
      [] s = "defaultProfile" -> "defaultprofile"
      [] s = "YES"       -> "yes"
      [] OTHER           -> s

normalizeKey(key) ==
    LET clean == ToLower(key)
    IN CASE clean \in {"api-key", "apikey", "key"} -> "apiKey"
         [] clean \in {"project", "project-id", "projectid"} -> "projectId"
         [] clean \in {"integration", "integration-id", "integrationid"} -> "integrationId"
         [] clean \in {"baseurl", "base-url", "url"} -> "baseUrl"
         [] clean \in {"stream", "no-stream"} -> "stream"
         [] clean \in {"temperature", "temp"} -> "temperature"
         [] clean \in {"default", "default-profile"} -> "defaultProfile"
         [] OTHER -> key

BOOLEAN_KEYS == {"stream"}
NUMBER_KEYS == {"temperature"}
SENSITIVE_KEY == "apiKey"

\* Number(value) on the values of the model: the number's text, or "NaN"
ToNumber(s) == CASE s = "" -> "0" [] s = "0.5" -> "0.5" [] OTHER -> "NaN"

\* value is the string the command line gave
parseValue(key, value) ==
    IF key \in BOOLEAN_KEYS
    THEN AttrVal("boolean",
                 Plain(<<IF ToLower(Join(value)) \in {"1", "true", "yes", "on"}
                         THEN "true" ELSE "false">>))
    ELSE IF key \in NUMBER_KEYS
    THEN IF ToNumber(Join(value)) # "NaN"
         THEN AttrVal("number", Plain(<<ToNumber(Join(value))>>))
         ELSE AttrVal("null", Plain(<<"null">>))
    ELSE AttrVal("string", Plain(value))

isSensitiveKey(key) == key = SENSITIVE_KEY

\* names every object inherits from Object.prototype: obj[name] is a function (for
\* __proto__, the prototype) when obj has no property of that name
ObjectPrototype == {"constructor", "toString", "valueOf", "hasOwnProperty", "__proto__"}

\* config.profiles[name] is truthy: an own profile, or an inherited property
HasProfile(profiles, name) == name \in DOMAIN profiles \/ name \in ObjectPrototype

\* if (!config.profiles[name]) config.profiles[name] = {}
EnsureProfile(profiles, name) ==
    IF HasProfile(profiles, name) THEN profiles
    ELSE [n \in (DOMAIN profiles) \cup {name} |-> IF n \in DOMAIN profiles THEN profiles[n] ELSE NoFields]

\* targetProfile[key] = x; when targetProfile is an inherited object the assignment
\* does not reach config.profiles
SetAttr(profiles, name, key, x) ==
    IF name \notin DOMAIN profiles THEN profiles
    ELSE [profiles EXCEPT ![name] =
            [k \in (DOMAIN profiles[name]) \cup {key} |-> IF k = key THEN x ELSE profiles[name][k]]]

\* config.ts 166: stored ? encodeSecret(stored, 'config') : ''
StoreSensitiveRaw(e, stored, salt, iv) == Returned(stored)

StoreSensitive(e, stored, salt, iv) ==
    IF stored # EmptyStr THEN encodeSecret(e, stored, "config", salt, iv) ELSE Returned(EmptyStr)

\* the result of a config call: it threw, or it returned and left `file` on disk
CfgThrew(file) == [threw |-> TRUE, file |-> file]
CfgDone(file) == [threw |-> FALSE, file |-> file]

\* profileOpt is options.profile, Unset when not given
setConfigValue(file, e, key, value, profileOpt, salt, iv) ==
    LET normalized == normalizeKey(key)
        config == readRawConfig(file)
    IN IF normalized = "defaultProfile"
       THEN CfgDone(writeRawConfig([defaultProfile |-> Join(value),
                                    profiles |-> EnsureProfile(config.profiles, Join(value))]))
       ELSE LET profileName == IF profileOpt # Unset THEN profileOpt ELSE config.defaultProfile
                profiles == EnsureProfile(config.profiles, profileName)
                parsed == parseValue(normalized, value)
            IN IF isSensitiveKey(normalized)
               THEN LET stored == parsed.v
                        encoded == StoreSensitive(e, stored, salt, iv)
                    IN IF encoded.threw THEN CfgThrew(file)
                       ELSE CfgDone(writeRawConfig(
                                [defaultProfile |-> config.defaultProfile,
                                 profiles |-> SetAttr(profiles, profileName, normalized,
                                                      AttrVal("string", encoded.value))]))
               ELSE CfgDone(writeRawConfig(
                        [defaultProfile |-> config.defaultProfile,
                         profiles |-> SetAttr(profiles, profileName, normalized, parsed)]))

createProfile(file, name) ==
    LET config == readRawConfig(file)
    IN IF HasProfile(config.profiles, name) THEN CfgThrew(file)
       ELSE CfgDone(writeRawConfig([defaultProfile |-> config.defaultProfile,
                                    profiles |-> EnsureProfile(config.profiles, name)]))

deleteProfile(file, name) ==
    LET config == readRawConfig(file)
    IN IF ~HasProfile(config.profiles, name) THEN CfgThrew(file)
       ELSE IF name = "" \/ name = config.defaultProfile THEN CfgThrew(file)
       ELSE CfgDone(writeRawConfig(
                [defaultProfile |-> config.defaultProfile,
                 profiles |-> [n \in (DOMAIN config.profiles) \ {name} |-> config.profiles[n]]]))

DEFAULT_PROFILE ==
    [k \in {"apiKey", "projectId", "integrationId", "baseUrl", "stream", "temperature"} |->
        CASE k = "baseUrl" -> AttrVal("string", Plain(<<"https://api.kapa.ai/query/v1">>))
          [] k = "stream" -> AttrVal("boolean", Plain(<<"true">>))
          [] k = "temperature" -> AttrVal("null", Plain(<<"null">>))
          [] OTHER -> AttrVal("string", EmptyStr)]

\* { ...DEFAULT_PROFILE, ...profile }
mergeProfile(profile) ==
    [k \in (DOMAIN DEFAULT_PROFILE) \cup (DOMAIN profile) |->
        IF k \in DOMAIN profile THEN profile[k] ELSE DEFAULT_PROFILE[k]]

decodeProfile(e, profile) ==
    IF SENSITIVE_KEY \in DOMAIN profile /\ profile[SENSITIVE_KEY].t = "string"
    THEN [profile EXCEPT ![SENSITIVE_KEY] = AttrVal("string", decodeSecret(e, @.v, "config").value)]
    ELSE profile

loadConfig(file, e) ==
    LET raw == readRawConfig(file)
        combinedProfiles ==
            [n \in (DOMAIN DEFAULT_CONFIG.profiles) \cup (DOMAIN raw.profiles) |->
                IF n \in DOMAIN raw.profiles THEN raw.profiles[n] ELSE DEFAULT_CONFIG.profiles[n]]
    IN [defaultProfile |-> raw.defaultProfile,
        profiles |-> [n \in DOMAIN combinedProfiles |->
                         mergeProfile(decodeProfile(e, combinedProfiles[n]))]]

\* the result of resolveProfile: it threw, or returned {name, values}
Resolved(threw, name, values) == [threw |-> threw, name |-> name, values |-> values]

\* profileName is Unset when not given; an inherited property has no own properties
\* to spread
resolveProfile(config, profileName) ==
    LET name == IF profileName # Unset THEN profileName ELSE config.defaultProfile
    IN IF ~HasProfile(config.profiles, name) THEN Resolved(TRUE, name, NoFields)
       ELSE Resolved(FALSE, name,
                     mergeProfile(IF name \in DOMAIN config.profiles
                                  THEN config.profiles[name] ELSE NoFields))

\* the command lines of the model: <<key, value>> of `kapa config set`
SetArgs == {<<"apiKey", <<"sk-unit">>>>, <<"API-KEY", <<>>>>, <<"projectId", <<"proj_123">>>>,
            <<"default", <<"work">>>>, <<"default-profile", <<"default">>>>,
            <<"default", <<"toString">>>>}
ProfileOpts == {Unset, "work"}
ProfileNames == {"default", "work", "toString"}
CfgSalts == {1}     \* the values randomBytes(16) takes in the config model

CfgEnvNames == {"KAPA_VAULT_KEY", "KAPA_ALLOW_PLAINTEXT_CONFIG"}

NoCfgCall == [op |-> "none", key |-> "", value |-> <<>>, profile |-> "", threw |-> FALSE,
              values |-> NoFields]

CfgIdle ==
    /\ configFile = NoFile
    /\ cfgCall = NoCfgCall
    /\ cfgPlain = {}

ConfigInit ==
    /\ env \in {e \in [EnvNames -> UNION {EnvValues(n) : n \in EnvNames}] :
                   \A n \in EnvNames : e[n] \in (IF n \in CfgEnvNames THEN EnvValues(n) ELSE {Unset})}
    /\ CfgIdle

\* the profile a `set` of a profile attribute writes to
TargetProfile(file, profileOpt) ==
    IF profileOpt # Unset THEN profileOpt ELSE readRawConfig(file).defaultProfile

PlaintextAuthorised(e) == getScopeKey(e, "config") = NoKey /\ allowPlaintext(e, "config")

SetConfigValue(key, value, profileOpt, salt, iv) ==
    LET r == setConfigValue(configFile, env, key, value, profileOpt, salt, iv)
        target == TargetProfile(configFile, profileOpt)
    IN /\ configFile' = r.file
       /\ cfgCall' = [op |-> "set", key |-> normalizeKey(key), value |-> value,
                      profile |-> target, threw |-> r.threw, values |-> NoFields]
       /\ cfgPlain' = IF r.threw \/ normalizeKey(key) # SENSITIVE_KEY THEN cfgPlain
                      ELSE IF value # <<>> /\ PlaintextAuthorised(env)
                      THEN cfgPlain \cup {target}
                      ELSE cfgPlain \ {target}
       /\ UNCHANGED env

CreateProfile(name) ==
    LET r == createProfile(configFile, name)
    IN /\ configFile' = r.file
       /\ cfgCall' = [op |-> "create", key |-> "", value |-> <<>>, profile |-> name,
                      threw |-> r.threw, values |-> NoFields]
       /\ UNCHANGED <<env, cfgPlain>>

DeleteProfile(name) ==
    LET r == deleteProfile(configFile, name)
    IN /\ configFile' = r.file
       /\ cfgCall' = [op |-> "delete", key |-> "", value |-> <<>>, profile |-> name,
                      threw |-> r.threw, values |-> NoFields]
       /\ cfgPlain' = IF r.threw THEN cfgPlain ELSE cfgPlain \ {name}
       /\ UNCHANGED env

\* resolveProfile(await loadConfig(), profileName)
ResolveProfile(profileName) ==
    LET r == resolveProfile(loadConfig(configFile, env), profileName)
    IN /\ cfgCall' = [op |-> "resolve", key |-> "", value |-> <<>>, profile |-> r.name,
                      threw |-> r.threw, values |-> r.values]
       /\ UNCHANGED <<env, configFile, cfgPlain>>

CfgSetEnv(name, value) ==
    /\ SetEnv(name, value)
    /\ cfgCall' = NoCfgCall
    /\ UNCHANGED <<configFile, cfgPlain>>

ConfigNext ==
    \/ \E a \in SetArgs, profileOpt \in ProfileOpts, salt \in CfgSalts, iv \in Ivs :
           SetConfigValue(a[1], a[2], profileOpt, salt, iv)
               /\ UNCHANGED <<sseVars, secVars, hisVars>>
    \/ \E name \in ProfileNames : CreateProfile(name) /\ UNCHANGED <<sseVars, secVars, hisVars>>
    \/ \E name \in ProfileNames : DeleteProfile(name) /\ UNCHANGED <<sseVars, secVars, hisVars>>
    \/ \E profileName \in ProfileNames \cup {Unset} :
           ResolveProfile(profileName) /\ UNCHANGED <<sseVars, secVars, hisVars>>
    \/ \E name \in CfgEnvNames : \E value \in EnvValues(name) :
           CfgSetEnv(name, value) /\ UNCHANGED <<sseVars, secVars, hisVars>>

(***************************************************************************)
(* history.ts                                                              *)
(***************************************************************************)
MaxLog == 2      \* the lines the history log holds at most

HistoryEntry(timestamp, profile, prompt, response, threadId) ==
    [timestamp |-> timestamp, profile |-> profile, prompt |-> prompt,
     response |-> response, threadId |-> threadId]

\* the records of the model; a prompt is a sequence of UTF-16 code units
Entries == {HistoryEntry("t1", "default", <<"q1">>, "r1", "th1"),
            HistoryEntry("t2", "default", <<"q", "HS">>, "r2", NoThread),
            HistoryEntry("t3", "work", <<"q3">>, "r3", "th3")}

\* JSON.stringify of a string's content: an unpaired surrogate is written as its
\* \uXXXX escape, a surrogate pair is left as it is
RECURSIVE JsonQuote(_)
JsonQuote(s) ==
    IF s = <<>> THEN <<>>
    ELSE IF Len(s) >= 2 /\ s[1] = "HS" /\ s[2] = "LS"
    THEN <<"HS", "LS">> \o JsonQuote(SubSeq(s, 3, Len(s)))
    ELSE IF Head(s) \in {"HS", "LS"}
    THEN <<"\\u" \o Head(s)>> \o JsonQuote(Tail(s))
    ELSE <<Head(s)>> \o JsonQuote(Tail(s))

\* JSON.stringify(entry): a property that is undefined is left out
JsonStringify(entry) ==
    Plain(<<"{\"timestamp\":\"" \o entry.timestamp \o "\",\"profile\":\"" \o entry.profile
             \o "\",\"prompt\":\"">>
          \o JsonQuote(entry.prompt)
          \o <<"\",\"response\":\"" \o entry.response
               \o (IF entry.threadId = NoThread THEN ""
                   ELSE "\",\"threadId\":\"" \o entry.threadId)
               \o "\"}">>)

\* JSON.parse(decoded) inside its try: the entry, or null when the text is no JSON
NoEntry == HistoryEntry("", "", <<>>, "", NoThread)

JsonParseEntry(decoded) ==
    IF \E entry \in Entries : JsonStringify(entry) = decoded
    THEN CHOOSE entry \in Entries : JsonStringify(entry) = decoded
    ELSE NoEntry

\* history.jsonl: absent, or its lines
NoHistoryFile == [exists |-> FALSE, lines |-> <<>>]

NoLastThread == "<null>"       \* getLastThread returned null

HistoryEnabled == "<null>"      \* historyDisabledMessage === null
MissingKeyMessage == "Secure history storage requires KAPA_VAULT_KEY or KAPA_HISTORY_KEY."
FsErrorMessage == "EACCES: permission denied"

\* the result of a history call: it threw or returned items, and left `file` on disk
\* and `disabled` in historyDisabledMessage
HisResult(threw, items, file, disabled) ==
    [threw |-> threw, items |-> items, file |-> file, disabled |-> disabled]

\* mkdirOk, appendOk: whether fs.mkdir and fs.appendFile succeed
\* appendHistory without the test of lines 31-33: a disabled store tries again
appendHistoryRetry(file, disabled, e, entry, mkdirOk, appendOk, salt, iv) ==
    IF ~mkdirOk THEN HisResult(TRUE, <<>>, file, disabled)
    ELSE LET serialized == JsonStringify(entry)
             payload == encodeSecret(e, serialized, "history", salt, iv)
         IN IF payload.threw THEN HisResult(FALSE, <<>>, file, MissingKeyMessage)
            ELSE IF ~appendOk THEN HisResult(FALSE, <<>>, file, FsErrorMessage)
            ELSE HisResult(FALSE, <<>>,
                           [exists |-> TRUE, lines |-> Append(file.lines, payload.value)],
                           disabled)

\* appendHistory with fs.writeFile for the fs.appendFile of line 38
appendHistoryOverwrite(file, disabled, e, entry, mkdirOk, appendOk, salt, iv) ==
    IF disabled # HistoryEnabled /\ disabled # "" THEN HisResult(FALSE, <<>>, file, disabled)
    ELSE IF ~mkdirOk THEN HisResult(TRUE, <<>>, file, disabled)
    ELSE LET serialized == JsonStringify(entry)
             payload == encodeSecret(e, serialized, "history", salt, iv)
         IN IF payload.threw THEN HisResult(FALSE, <<>>, file, MissingKeyMessage)
            ELSE IF ~appendOk THEN HisResult(FALSE, <<>>, file, FsErrorMessage)
            ELSE HisResult(FALSE, <<>>, [exists |-> TRUE, lines |-> <<payload.value>>], disabled)

appendHistory(file, disabled, e, entry, mkdirOk, appendOk, salt, iv) ==
    IF disabled # HistoryEnabled /\ disabled # "" THEN HisResult(FALSE, <<>>, file, disabled)
    ELSE IF ~mkdirOk THEN HisResult(TRUE, <<>>, file, disabled)
    ELSE LET serialized == JsonStringify(entry)
             payload == encodeSecret(e, serialized, "history", salt, iv)
         IN IF payload.threw THEN HisResult(FALSE, <<>>, file, MissingKeyMessage)
            ELSE IF ~appendOk THEN HisResult(FALSE, <<>>, file, FsErrorMessage)
            ELSE HisResult(FALSE, <<>>,
                           [exists |-> TRUE, lines |-> Append(file.lines, payload.value)],
                           disabled)

\* null is the empty string: both are falsy at line 52
decodeHistoryLine(e, line) ==
    IF line = EmptyStr THEN EmptyStr
    ELSE IF ~isEncryptedValue(line) THEN line
    ELSE decodeSecret(e, line, "history").value

\* Array.prototype.filter(Boolean) on the parsed lines
RECURSIVE FilterEntries(_)
FilterEntries(items) ==
    IF items = <<>> THEN <<>>
    ELSE IF Len(items) = 1 THEN (IF items[1] = NoEntry THEN <<>> ELSE items)
    ELSE FilterEntries(SubSeq(items, 1, Len(items) \div 2))
             \o FilterEntries(SubSeq(items, Len(items) \div 2 + 1, Len(items)))

\* Array.prototype.slice(start)
Slice(items, start) ==
    LET len == Len(items)
        k == IF start < 0 THEN (IF len + start > 0 THEN len + start ELSE 0)
             ELSE (IF start < len THEN start ELSE len)
    IN SubSeq(items, k + 1, len)

Reverse(items) == [i \in 1..Len(items) |-> items[Len(items) + 1 - i]]

\* readHistory without the reverse of line 60
readHistoryOldestFirst(file, disabled, e, limit) ==
    IF ~file.exists THEN HisResult(FALSE, <<>>, file, disabled)
    ELSE LET parsed == [i \in 1..Len(file.lines) |->
                            IF decodeHistoryLine(e, file.lines[i]) = EmptyStr THEN NoEntry
                            ELSE JsonParseEntry(decodeHistoryLine(e, file.lines[i]))]
         IN HisResult(FALSE, Slice(FilterEntries(parsed), 0 - limit), file, disabled)

\* readHistory without the ENOENT case of lines 62-64
readHistoryRethrowEnoent(file, disabled, e, limit) ==
    IF ~file.exists THEN HisResult(TRUE, <<>>, file, disabled)
    ELSE LET parsed == [i \in 1..Len(file.lines) |->
                            IF decodeHistoryLine(e, file.lines[i]) = EmptyStr THEN NoEntry
                            ELSE JsonParseEntry(decodeHistoryLine(e, file.lines[i]))]
         IN HisResult(FALSE, Reverse(Slice(FilterEntries(parsed), 0 - limit)), file, disabled)

\* readHistory without the inner try of lines 53-57 and with a decode that raises:
\* a line that does not yield a record fails the read
readHistoryStrict(file, disabled, e, limit) ==
    IF ~file.exists THEN HisResult(FALSE, <<>>, file, disabled)
    ELSE LET parsed == [i \in 1..Len(file.lines) |->
                            IF decodeHistoryLine(e, file.lines[i]) = EmptyStr THEN NoEntry
                            ELSE JsonParseEntry(decodeHistoryLine(e, file.lines[i]))]
         IN IF \E i \in 1..Len(parsed) : parsed[i] = NoEntry
            THEN HisResult(TRUE, <<>>, file, disabled)
            ELSE HisResult(FALSE, Reverse(Slice(FilterEntries(parsed), 0 - limit)), file, disabled)

readHistory(file, disabled, e, limit) ==
    IF ~file.exists THEN HisResult(FALSE, <<>>, file, disabled)
    ELSE LET parsed == [i \in 1..Len(file.lines) |->
                            IF decodeHistoryLine(e, file.lines[i]) = EmptyStr THEN NoEntry
                            ELSE JsonParseEntry(decodeHistoryLine(e, file.lines[i]))]
             items == FilterEntries(parsed)
         IN HisResult(FALSE, Reverse(Slice(items, 0 - limit)), file, disabled)

\* getLastThread reading the whole log instead of readHistory(200)
getLastThreadFullScan(file, disabled, e, profile) ==
    LET history == readHistory(file, disabled, e, Len(file.lines)).items
        hits == {i \in 1..Len(history) :
                    history[i].profile = profile /\ history[i].threadId \notin {NoThread, ""}}
    IN IF hits = {} THEN NoLastThread
       ELSE history[CHOOSE i \in hits : \A j \in hits : i <= j].threadId

SCAN_LIMIT == 200

\* the thread id of the first entry of readHistory(200) that has the profile and a
\* truthy threadId, or null
getLastThread(file, disabled, e, profile) ==
    LET history == readHistory(file, disabled, e, SCAN_LIMIT).items
        hits == {i \in 1..Len(history) :
                    history[i].profile = profile /\ history[i].threadId \notin {NoThread, ""}}
    IN IF hits = {} THEN NoLastThread
       ELSE history[CHOOSE i \in hits : \A j \in hits : i <= j].threadId

clearHistory(file, disabled) == HisResult(FALSE, <<>>, NoHistoryFile, disabled)

HisSalts == {1}     \* the values randomBytes(16) takes in the history model

Limits == (0 - 1)..(MaxLog + 1)
HisEnvNames == {"KAPA_HISTORY_KEY", "KAPA_ALLOW_PLAINTEXT_HISTORY"}

\* the last call: what was asked, whether it raised, what it returned, and how many
\* lines it wrote to stderr
NoHisCall == [op |-> "none", limit |-> 0, profile |-> "", threw |-> FALSE, items |-> <<>>,
              thread |-> NoLastThread, logged |-> 0]

HisIdle ==
    /\ historyFile = NoHistoryFile
    /\ historyDisabledMessage = HistoryEnabled
    /\ hisCall = NoHisCall
    /\ hisLog = <<>>

HistoryInit ==
    /\ env \in {e \in [EnvNames -> UNION {EnvValues(n) : n \in EnvNames}] :
                   \A n \in EnvNames : e[n] \in (IF n \in HisEnvNames THEN EnvValues(n) ELSE {Unset})}
    /\ HisIdle

\* hisLog remembers, for each line of the log, the record it was written for and the
\* key it was written under, and whether it was written with no key and the opt-in
AppendHistory(entry, mkdirOk, appendOk, salt, iv) ==
    LET r == appendHistory(historyFile, historyDisabledMessage, env, entry,
                           mkdirOk, appendOk, salt, iv)
    IN /\ Len(r.file.lines) <= MaxLog
       /\ historyFile' = r.file
       /\ historyDisabledMessage' = r.disabled
       /\ hisCall' = [NoHisCall EXCEPT !.op = "append", !.threw = r.threw,
                                       !.logged = IF r.disabled # historyDisabledMessage
                                                  THEN 1 ELSE 0]
       /\ hisLog' = IF r.file = historyFile THEN hisLog
                    ELSE Append(hisLog, [entry |-> entry, key |-> getScopeKey(env, "history"),
                                         optIn |-> getScopeKey(env, "history") = NoKey
                                                       /\ allowPlaintext(env, "history")])
       /\ UNCHANGED env

ReadHistory(limit) ==
    LET r == readHistory(historyFile, historyDisabledMessage, env, limit)
    IN /\ hisCall' = [NoHisCall EXCEPT !.op = "read", !.limit = limit, !.threw = r.threw,
                                       !.items = r.items]
       /\ UNCHANGED <<env, historyFile, historyDisabledMessage, hisLog>>

ClearHistory ==
    LET r == clearHistory(historyFile, historyDisabledMessage)
    IN /\ historyFile' = r.file
       /\ hisCall' = [NoHisCall EXCEPT !.op = "clear", !.threw = r.threw]
       /\ hisLog' = <<>>
       /\ UNCHANGED <<env, historyDisabledMessage>>

GetLastThread(profile) ==
    /\ hisCall' = [NoHisCall EXCEPT !.op = "last", !.profile = profile,
                                    !.thread = getLastThread(historyFile, historyDisabledMessage,
                                                             env, profile)]
    /\ UNCHANGED <<env, historyFile, historyDisabledMessage, hisLog>>

HisSetEnv(name, value) ==
    /\ SetEnv(name, value)
    /\ hisCall' = NoHisCall
    /\ UNCHANGED <<historyFile, historyDisabledMessage, hisLog>>

HistoryNext ==
    \/ \E entry \in Entries, mkdirOk \in BOOLEAN, appendOk \in BOOLEAN, salt \in HisSalts, iv \in Ivs :
           AppendHistory(entry, mkdirOk, appendOk, salt, iv)
               /\ UNCHANGED <<sseVars, secVars, cfgVars>>
    \/ \E limit \in Limits : ReadHistory(limit) /\ UNCHANGED <<sseVars, secVars, cfgVars>>
    \/ ClearHistory /\ UNCHANGED <<sseVars, secVars, cfgVars>>
    \/ \E profile \in ProfileNames : GetLastThread(profile) /\ UNCHANGED <<sseVars, secVars, cfgVars>>
    \/ \E name \in HisEnvNames : \E value \in EnvValues(name) :
           HisSetEnv(name, value) /\ UNCHANGED <<sseVars, secVars, cfgVars>>

(***************************************************************************)
(* The log at rest: between calls a line of history.jsonl may be replaced  *)
(* by one the program cannot read.                                         *)
(***************************************************************************)
ForeignKey == "k9"      \* a key no environment of the model resolves

\* a malformed envelope, a line that is no JSON, an envelope under a foreign key
ForeignLines ==
    {Prefixed(<<JunkField>>),
     Plain(<<"not json">>),
     encryptWithKey(JsonStringify(HistoryEntry("t1", "default", <<"q1">>, "r1", "th1")),
                    ForeignKey, 1, 1)}

TamperLine(i, line) ==
    /\ historyFile.exists
    /\ i \in 1..Len(historyFile.lines)
    /\ historyFile' = [historyFile EXCEPT !.lines[i] = line]
    /\ hisLog' = [hisLog EXCEPT ![i] = [entry |-> NoEntry, key |-> ForeignKey, optIn |-> FALSE]]
    /\ hisCall' = NoHisCall
    /\ UNCHANGED <<env, historyDisabledMessage>>

HistoryAtRestNext ==
    \/ HistoryNext
    \/ \E i \in 1..MaxLog, line \in ForeignLines :
           TamperLine(i, line) /\ UNCHANGED <<sseVars, secVars, cfgVars>>

(***************************************************************************)
(* getLastThread on a long log: one record followed by a run of copies of  *)
(* another, as many as the scan reaches or a few more or less.             *)
(***************************************************************************)
ScanSlack == 2       \* how far the run's length is from the length of the scan

\* the environments a long log is written and read under
LongLogEnvs ==
    {[NoEnv EXCEPT !["KAPA_HISTORY_KEY"] = "k2"],
     [NoEnv EXCEPT !["KAPA_ALLOW_PLAINTEXT_HISTORY"] = "1"]}

\* the log after appendHistory(first) and then n times appendHistory(filler)
LongLog(e, first, filler, n) ==
    [exists |-> TRUE,
     lines |-> [i \in 1..(n + 1) |->
                   encodeSecret(e, JsonStringify(IF i = 1 THEN first ELSE filler),
                                "history", 1, 1).value]]

LongLogInit ==
    \E e \in LongLogEnvs, first \in Entries, filler \in Entries :
    \E n \in (SCAN_LIMIT - ScanSlack)..(SCAN_LIMIT + ScanSlack) :
        /\ env = e
        /\ historyFile = LongLog(e, first, filler, n)
        /\ hisLog = [i \in 1..(n + 1) |->
                        [entry |-> IF i = 1 THEN first ELSE filler,
                         key |-> getScopeKey(e, "history"),
                         optIn |-> getScopeKey(e, "history") = NoKey]]
        /\ historyDisabledMessage = HistoryEnabled
        /\ hisCall = NoHisCall

LastThreadNext ==
    \E profile \in ProfileNames : GetLastThread(profile) /\ UNCHANGED <<sseVars, secVars, cfgVars>>

(***************************************************************************)
(* Key names: setConfigValue is called with aliases, other spellings and   *)
(* names that are no attribute, under a key that resolves.                 *)
(***************************************************************************)
KeyNames == {"API-KEY", "Project", "no-stream", "Temp", "defaultProfile", "foo"}
KeyValues == {<<"x">>}

ConfigKeysInit ==
    /\ env = [NoEnv EXCEPT !["KAPA_VAULT_KEY"] = "k1"]
    /\ CfgIdle

ConfigKeysNext ==
    \E key \in KeyNames, value \in KeyValues, salt \in CfgSalts, iv \in Ivs :
        SetConfigValue(key, value, Unset, salt, iv) /\ UNCHANGED <<sseVars, secVars, hisVars>>

(***************************************************************************)
(* security.ts maskSecret                                                  *)
(***************************************************************************)
MaxSecret == 6      \* characters in a secret

SecretChars == {"a", "b"}

\* the secrets maskSecret is called with, as sequences of characters
Secrets ==
    UNION {[1..n -> SecretChars] : n \in 0..MaxSecret}
        \cup {<<"s", "k", "-", "u", "n", "i", "t">>}

ELLIPSIS == "U+2026"     \* the one character of the horizontal ellipsis

\* part_002 22-25
maskSecret(value) ==
    IF value = <<>> THEN <<"(unset)">>
    ELSE SubSeq(value, 1, Min2(2, Len(value))) \o <<ELLIPSIS>> \o Slice(value, -2)

MaskInit ==
    /\ env = NoEnv
    /\ secStored \in {Plain(s) : s \in Secrets}
    /\ secOrigin = NoOrigin
    /\ secCall = NoCall
    /\ secIssued = {}

\* part_000 168: maskSecret(stored)
MaskSecret ==
    /\ secCall.op = "none"
    /\ secCall' = [NoCall EXCEPT !.op = "mask", !.value = secStored,
                                 !.out = Plain(maskSecret(secStored.text))]
    /\ UNCHANGED <<env, secStored, secOrigin, secIssued>>

MaskNext == MaskSecret /\ UNCHANGED <<sseVars, cfgVars, hisVars>>

(***************************************************************************)
(* index.ts: handleAsk and the interactive session                         *)
(***************************************************************************)
MaxLines == 3

\* a trimmed input line: a question, or the /reset command
LineTexts == {"q1", "/reset"}

\* stdin: the lines typed, in order; last marks the final line of the chunk of data that
\* carries it (a typed line is a chunk of its own, pasted or piped lines share one)
InputLine(text, last) == [text |-> text, last |-> last]

Inputs ==
    {in \in UNION {[1..n -> {InputLine(t, l) : t \in LineTexts, l \in BOOLEAN}] :
                       n \in 0..MaxLines} :
        in = <<>> \/ in[Len(in)].last}

InitialThreads == {NoThread, "th1"}     \* resolveInitialThreadId
ReturnedThreads == {NoThread, "th3"}    \* normalized.threadId || response.data?.thread_id
SendOutcomes == {"ok", "construction", "api", "abort"}

\* a handleAsk call.  pc: "called" (at its first await), "sending" (sendChat is
\* outstanding), "responded" (sendChat returned), "resolved" / "rejected" (handleAsk
\* settled, the caller has not run yet), "done" (the 'line' handler finished).
\* thread is options.thread, threadId the local of line 290.  afterReset, currentAtSend,
\* before and after record what currentThreadId was around the call.
NoAsk ==
    [pc |-> "called", thread |-> NoThread, afterReset |-> FALSE, sent |-> FALSE,
     currentAtSend |-> NoThread, outcome |-> "", returned |-> NoThread,
     threadId |-> NoThread, appends |-> 0, before |-> NoThread, after |-> NoThread]

Outstanding(s) == {i \in DOMAIN s.asks : s.asks[i].pc # "done"}

\* index.ts 582-627: the 'line' handler up to its first await
OnLine(s, text) ==
    IF text = "/reset"
    THEN [s EXCEPT !.paused = TRUE, !.currentThreadId = NoThread, !.resetPending = TRUE]
    ELSE [s EXCEPT !.paused = TRUE, !.processing = TRUE, !.resetPending = FALSE,
                   !.asks = Append(@, [NoAsk EXCEPT !.thread = s.currentThreadId,
                                                    !.afterReset = s.resetPending])]

RECURSIVE OnLines(_, _, _)
OnLines(s, from, to) ==
    IF from > to THEN s ELSE OnLines(OnLine(s, s.input[from].text), from + 1, to)

ChunkEnd(s) ==
    CHOOSE k \in s.next..Len(s.input) :
        s.input[k].last /\ \A j \in s.next..(k - 1) : ~s.input[j].last

\* the stream, flowing, delivers its next chunk: readline emits one 'line' event for each
\* line in it, pause() in a handler not stopping the rest of the chunk; a command's
\* handler then runs to its end (lines 603-605) before anything else happens
LineEvents ==
    /\ session.next <= Len(session.input)
    /\ ~session.paused
    /\ LET to == ChunkEnd(session)
           s == OnLines(session, session.next, to)
           command == \E k \in session.next..to : session.input[k].text = "/reset"
       IN session' = [s EXCEPT !.next = to + 1,
                               !.paused = IF command THEN FALSE ELSE s.paused]
    /\ UNCHANGED <<apiVars, env, secVars, cfgVars, hisVars>>

\* index.ts 248-285: the call reaches sendChat, or throws for want of a project id
AskSend(i) ==
    /\ i \in DOMAIN session.asks
    /\ session.asks[i].pc = "called"
    /\ session' =
           IF session.asks[i].thread = NoThread /\ ~session.projectId
           THEN [session EXCEPT !.asks[i].pc = "rejected", !.asks[i].outcome = "project"]
           ELSE [session EXCEPT !.asks[i].pc = "sending", !.asks[i].sent = TRUE,
                                !.asks[i].currentAtSend = session.currentThreadId]
    /\ UNCHANGED <<apiVars, env, secVars, cfgVars, hisVars>>

\* index.ts 290
ResultThreadId(returned, threadId) == IF returned # NoThread THEN returned ELSE threadId

\* index.ts 271-290: sendChat settles
AskRespond(i, outcome, returned) ==
    /\ i \in DOMAIN session.asks
    /\ session.asks[i].pc = "sending"
    /\ session' =
           IF outcome = "ok"
           THEN [session EXCEPT !.asks[i].pc = "responded", !.asks[i].outcome = "ok",
                                !.asks[i].returned = returned,
                                !.asks[i].threadId =
                                    ResultThreadId(returned, session.asks[i].thread)]
           ELSE [session EXCEPT !.asks[i].pc = "rejected", !.asks[i].outcome = outcome]
    /\ UNCHANGED <<apiVars, env, secVars, cfgVars, hisVars>>

WritesHistoryAlways(history) == TRUE

\* index.ts 340: options.history !== false
WritesHistory(history) == history

\* index.ts 340-351
AskHistory(i, mkdirOk, appendOk) ==
    /\ i \in DOMAIN session.asks
    /\ session.asks[i].pc = "responded"
    /\ IF WritesHistory(session.history)
       THEN LET entry == HistoryEntry("t1", "default", <<"q1">>, "r1",
                                      session.asks[i].threadId)
                r == appendHistory(historyFile, historyDisabledMessage, env, entry,
                                   mkdirOk, appendOk, 1, 1)
            IN /\ session' = [session EXCEPT
                                  !.asks[i].appends = @ + 1,
                                  !.asks[i].pc = IF r.threw THEN "rejected" ELSE "resolved",
                                  !.asks[i].outcome = IF r.threw THEN "history" ELSE @]
               /\ historyFile' = r.file
               /\ historyDisabledMessage' = r.disabled
               /\ hisCall' = [NoHisCall EXCEPT !.op = "append", !.threw = r.threw,
                                               !.logged = IF r.disabled # historyDisabledMessage
                                                          THEN 1 ELSE 0]
               /\ hisLog' = IF r.file = historyFile THEN hisLog
                            ELSE Append(hisLog,
                                        [entry |-> entry, key |-> getScopeKey(env, "history"),
                                         optIn |-> getScopeKey(env, "history") = NoKey
                                                       /\ allowPlaintext(env, "history")])
       ELSE /\ session' = [session EXCEPT !.asks[i].pc = "resolved"]
            /\ UNCHANGED hisVars
    /\ UNCHANGED <<apiVars, env, secVars, cfgVars>>

\* index.ts 612-624: the 'line' handler after its await
AskFinish(i) ==
    /\ i \in DOMAIN session.asks
    /\ session.asks[i].pc \in {"resolved", "rejected"}
    /\ LET a == session.asks[i]
           current == IF a.pc = "resolved" /\ a.threadId # NoThread THEN a.threadId
                      ELSE session.currentThreadId
       IN session' = [session EXCEPT !.currentThreadId = current,
                                     !.processing = FALSE, !.paused = FALSE,
                                     !.asks[i].pc = "done",
                                     !.asks[i].before = session.currentThreadId,
                                     !.asks[i].after = current]
    /\ UNCHANGED <<apiVars, env, secVars, cfgVars, hisVars>>

\* one handleAsk call (kapa ask), just made
AskStart ==
    /\ session \in {[NoSession EXCEPT !.asks = <<[NoAsk EXCEPT !.thread = t]>>,
                                      !.history = h, !.projectId = p] :
                        t \in InitialThreads, h \in BOOLEAN, p \in BOOLEAN}
    /\ env \in {e \in [EnvNames -> UNION {EnvValues(n) : n \in EnvNames}] :
                   \A n \in EnvNames : e[n] \in (IF n \in HisEnvNames THEN EnvValues(n) ELSE {Unset})}

AskNext ==
    \/ AskSend(1)
    \/ \E outcome \in SendOutcomes, returned \in ReturnedThreads : AskRespond(1, outcome, returned)
    \/ \E mkdirOk \in BOOLEAN, appendOk \in BOOLEAN : AskHistory(1, mkdirOk, appendOk)

SessionStart ==
    /\ session \in {[NoSession EXCEPT !.input = in, !.currentThreadId = t,
                                      !.history = h, !.projectId = p] :
                        in \in Inputs, t \in InitialThreads, h \in BOOLEAN, p \in BOOLEAN}
    /\ env \in {[NoEnv EXCEPT !["KAPA_HISTORY_KEY"] = k] : k \in EnvValues("KAPA_HISTORY_KEY")}

SessionNext ==
    \/ LineEvents
    \/ \E i \in 1..MaxLines : AskSend(i)
    \/ \E i \in 1..MaxLines : \E outcome \in SendOutcomes, returned \in ReturnedThreads :
           AskRespond(i, outcome, returned)
    \/ \E i \in 1..MaxLines : \E mkdirOk \in BOOLEAN, appendOk \in BOOLEAN :
           AskHistory(i, mkdirOk, appendOk)
    \/ \E i \in 1..MaxLines : AskFinish(i)

(***************************************************************************)
(* Specifications                                                          *)
(***************************************************************************)
SseInit == SseStart /\ env = NoEnv /\ SecIdle /\ CfgIdle /\ HisIdle
SpecSse == SseInit /\ [][SseNext]_vars

SecInit == SecretInit /\ SseIdle /\ CfgIdle /\ HisIdle
SpecSecret == SecInit /\ [][SecretNext]_vars

CfgInit == ConfigInit /\ SseIdle /\ SecIdle /\ HisIdle
SpecConfig == CfgInit /\ [][ConfigNext]_vars

SendInit == SendCalled /\ env = NoEnv /\ SecIdle /\ CfgIdle /\ HisIdle
SpecSend == SendInit /\ [][SendNext]_vars

NormalizeInit == NormalizeCalled /\ env = NoEnv /\ SecIdle /\ CfgIdle /\ HisIdle
SpecNormalize == NormalizeInit /\ [][NormalizeNext]_vars

KeyInit == ScopeKeyInit /\ SseIdle /\ CfgIdle /\ HisIdle
SpecScopeKey == KeyInit /\ [][ScopeKeyNext]_vars

FreshnessInit == FreshInit /\ SseIdle /\ CfgIdle /\ HisIdle
SpecFresh == FreshnessInit /\ [][FreshNext]_vars

MaskingInit == MaskInit /\ SseIdle /\ CfgIdle /\ HisIdle
SpecMask == MaskingInit /\ [][MaskNext]_vars

SessionInit ==
    /\ SessionStart
    /\ DecoderIdle /\ send = NoSend /\ normCall = NoNormCall
    /\ SecIdle /\ CfgIdle /\ HisIdle
SpecSession == SessionInit /\ [][SessionNext]_vars

AskInit ==
    /\ AskStart
    /\ DecoderIdle /\ send = NoSend /\ normCall = NoNormCall
    /\ SecIdle /\ CfgIdle /\ HisIdle
SpecAsk == AskInit /\ [][AskNext]_vars

CfgKeysInit == ConfigKeysInit /\ SseIdle /\ SecIdle /\ HisIdle
SpecConfigKeys == CfgKeysInit /\ [][ConfigKeysNext]_vars

HisInit == HistoryInit /\ SseIdle /\ SecIdle /\ CfgIdle
SpecHistory == HisInit /\ [][HistoryNext]_vars
SpecHistoryAtRest == HisInit /\ [][HistoryAtRestNext]_vars

LastThreadInit == LongLogInit /\ SseIdle /\ SecIdle /\ CfgIdle
SpecLastThread == LastThreadInit /\ [][LastThreadNext]_vars

(***************************************************************************)
(* The secret codec                                                        *)
(***************************************************************************)
\* no unpaired surrogate
RECURSIVE WellFormedText(_)
WellFormedText(text) ==
    IF text = <<>> THEN TRUE
    ELSE IF Head(text) = "HS"
    THEN Len(text) >= 2 /\ text[2] = "LS" /\ WellFormedText(SubSeq(text, 3, Len(text)))
    ELSE Head(text) # "LS" /\ WellFormedText(Tail(text))

\* secStored is what encodeSecret returned, and the key it was encrypted under is
\* the key the decoding call resolved
DecodedWhatWasEncoded ==
    /\ secCall.op = "decode"
    /\ secOrigin.edit = "none"
    /\ secOrigin.key # NoKey
    /\ secCall.key = secOrigin.key

\* C4 as stated: decodeSecret(encodeSecret(P, S), S) = P for every plaintext P when a
\* key is resolvable and unchanged between the two calls.
C4_RoundTrip ==
    DecodedWhatWasEncoded => (~secCall.threw /\ secCall.out = secOrigin.value)

\* C4 amended: the round trip returns P for every plaintext P that is well-formed
\* UTF-16 (no unpaired surrogate).
C4_RoundTripWellFormed ==
    (DecodedWhatWasEncoded /\ WellFormedText(secOrigin.value.text)) =>
        (~secCall.threw /\ secCall.out = secOrigin.value)

C4_Witness ==
    /\ DecodedWhatWasEncoded
    /\ secCall.value.pfx
    /\ secOrigin.value = Plain(<<"HS", "LS">>)
    /\ secCall.out = Plain(<<"HS", "LS">>)

FieldCountIsFour(value) ==
    Len(value.fields) = 4 /\ \A k \in 1..4 : value.fields[k] # EmptyField

\* C5: decodeSecret never raises, and returns the empty string for a prefixed value
\* that is malformed, fails authentication, was encrypted under another key, or is
\* read while no key is resolvable.
C5_DecodeNeverRaises ==
    (secCall.op = "decode" /\ secCall.value.pfx) =>
        /\ ~secCall.threw
        /\ (\/ ~FieldCountIsFour(secCall.value)
            \/ secOrigin.edit = "tag"
            \/ secCall.key # secOrigin.key
            \/ secCall.key = NoKey) => secCall.out = EmptyStr

\* C6: a prefixed value whose remainder is not exactly four non-empty fields is
\* rejected: decodeSecret returns the empty string.
C6_WrongFieldCountRejected ==
    (secCall.op = "decode" /\ secCall.value.pfx /\ ~FieldCountIsFour(secCall.value)) =>
        secCall.out = EmptyStr

NoKeyEncode == secCall.op = "encode" /\ secCall.key = NoKey
Authorised == env[ALLOW_PLAINTEXT_ENV(secCall.scope)] = "1"

\* C7 as stated: with no resolvable key encodeSecret raises unless plaintext storage
\* is authorised for the scope, and then returns the plaintext unchanged, for every
\* plaintext.
C7_NoKeyEncode ==
    NoKeyEncode =>
        IF Authorised
        THEN ~secCall.threw /\ secCall.out = secCall.value
        ELSE secCall.threw

\* C7 amended: the same for every non-empty plaintext; the empty plaintext is
\* returned as the empty string without raising, authorised or not.
C7_NoKeyEncodeNonEmpty ==
    NoKeyEncode =>
        IF secCall.value = EmptyStr \/ Authorised
        THEN ~secCall.threw /\ secCall.out = secCall.value
        ELSE secCall.threw

C7_Witness ==
    /\ NoKeyEncode
    /\ env[ALLOW_PLAINTEXT_ENV(secCall.scope)] = "true"
    /\ secCall.value = Plain(<<"a", "b">>)
    /\ secCall.threw

(***************************************************************************)
(* What the handler saw, read back from the log of its calls               *)
(***************************************************************************)
RECURSIVE TextsOf(_)
TextsOf(evs) ==
    IF evs = <<>> THEN <<>>
    ELSE (IF Head(evs).hasText THEN <<Head(evs).text>> ELSE <<>>) \o TextsOf(Tail(evs))

Delivered == Join(TextsOf(events))

ObjectEvents == {i \in 1..Len(events) : events[i].payload.t \in {"object", "array"}}
LastObjectPayload == events[CHOOSE i \in ObjectEvents : \A j \in ObjectEvents : j <= i].payload

\* the incremental text each block of the model carries on the wire
WireText(b) == CASE b = "msgA" -> "a" [] b = "msgB" -> "b" [] OTHER -> ""

RECURSIVE WireTexts(_)
WireTexts(bs) == IF bs = <<>> THEN <<>> ELSE <<WireText(Head(bs))>> \o WireTexts(Tail(bs))

TextBlocksThenDone ==
    /\ blocks # <<>>
    /\ blocks[Len(blocks)] = "done"
    /\ \A i \in 1..(Len(blocks) - 1) : WireText(blocks[i]) # ""

\* C1: a body of text-carrying event blocks closed by a [DONE] block delivers the
\* texts to the callback one per block in order, and the returned payload's answer
\* is the concatenation of those texts.
C1_DoneAnswerIsConcatenation ==
    (ssePc = "returned" /\ TextBlocksThenDone) =>
        /\ TextsOf(events) = WireTexts(SubSeq(blocks, 1, Len(blocks) - 1))
        /\ Get(sseResult, "answer") = Str(Join(WireTexts(blocks)))

\* C2 as stated: when the stream closes without [DONE] the returned payload's answer
\* equals the accumulated text whenever the last object payload had no answer, and
\* is {answer: accumulated text} when no object payload was seen.
C2_EofAnswerIsAccumulated ==
    sseVia = "eof" =>
        IF ObjectEvents = {}
        THEN sseResult = Obj([answer |-> Str(Delivered)])
        ELSE ~Truthy(Get(LastObjectPayload, "answer")) =>
                 Get(sseResult, "answer") = Str(Delivered)

\* C2 amended: the same, for a non-empty accumulated text; with an empty accumulated
\* text nothing is injected and the returned payload carries no answer.
C2_EofAnswerIsAccumulatedWhenNonEmpty ==
    sseVia = "eof" =>
        /\ ssePc = "returned"
        /\ IF ObjectEvents = {}
           THEN sseResult = Obj([answer |-> Str(Delivered)])
           ELSE ~Truthy(Get(LastObjectPayload, "answer")) =>
                    IF Delivered # ""
                    THEN Get(sseResult, "answer") = Str(Delivered)
                    ELSE ~Truthy(Get(sseResult, "answer"))

C2_Witness ==
    /\ sseVia = "eof"
    /\ ObjectEvents # {}
    /\ Get(LastObjectPayload, "answer") = Undefined
    /\ Delivered = "ab"
    /\ Get(sseResult, "answer") = Str("ab")

\* C3: the first [DONE] block ends decoding: one synthetic "done" event is delivered
\* for it and nothing is delivered afterwards, whatever follows it on the wire.
C3_DoneEndsDecoding ==
    LET ds == {i \in 1..Len(blocks) : blocks[i] = "done"}
    IN ds # {} =>
           LET n == CHOOSE i \in ds : \A j \in ds : i <= j
           IN /\ Len(events) <= n
              /\ \A i \in 1..Len(events) : (events[i] = DoneEvent) <=> (i = n)
              /\ (Len(events) = n) => (ssePc = "returned" /\ sseVia = "done")

C3_Witness ==
    /\ sseVia = "done"
    /\ Boundary(buffer) > 0
    /\ events[Len(events)] = DoneEvent
    /\ Len(blocks) > Len(events)

(***************************************************************************)
(* Stored API keys                                                         *)
(***************************************************************************)
\* the value is what encryptWithKey produces: the prefix and the four fields
IsEnvelope(value) ==
    /\ isEncryptedValue(value)
    /\ Len(value.fields) = 4
    /\ value.fields[1].kind = "salt"
    /\ value.fields[2].kind = "iv"
    /\ value.fields[3].kind = "ct"
    /\ value.fields[4].kind = "tag"

StoredApiKeys ==
    {n \in DOMAIN configFile.profiles :
        /\ SENSITIVE_KEY \in DOMAIN configFile.profiles[n]
        /\ configFile.profiles[n][SENSITIVE_KEY].v # EmptyStr}

\* every API key in config.json is an envelope, unless it was written while no key
\* resolved and plaintext storage was authorised
ApiKeysProtected ==
    \A n \in StoredApiKeys : IsEnvelope(configFile.profiles[n][SENSITIVE_KEY].v) \/ n \in cfgPlain

\* this step is setConfigValue('apiKey', v) with neither a key nor the authorisation
UnprotectedKeySet ==
    /\ cfgCall'.op = "set"
    /\ cfgCall'.key = SENSITIVE_KEY
    /\ getScopeKey(env, "config") = NoKey
    /\ ~allowPlaintext(env, "config")

FailsLeavingFile == cfgCall'.threw /\ configFile' = configFile

LinesProtected ==
    /\ Len(hisLog) = Len(historyFile.lines)
    /\ \A i \in 1..Len(hisLog) : IsEnvelope(historyFile.lines[i]) \/ hisLog[i].optIn

\* this step is an appendHistory call with neither a key nor the opt-in
UnprotectedAppend ==
    /\ hisCall'.op = "append"
    /\ getScopeKey(env, "history") = NoKey
    /\ ~allowPlaintext(env, "history")

\* C9 as stated: every line appendHistory wrote is an envelope unless no history key
\* resolved and KAPA_ALLOW_PLAINTEXT_HISTORY=1 was set when it was written; with
\* neither, appendHistory writes nothing to the log and does not raise.
C9_AppendProtected ==
    /\ []LinesProtected
    /\ [][UnprotectedAppend => (historyFile' = historyFile /\ ~hisCall'.threw)]_vars

\* the part of C9 that does not depend on the call returning: lines are protected,
\* and with neither a key nor the opt-in nothing is written
C9_NothingWrittenUnprotected ==
    /\ []LinesProtected
    /\ [][UnprotectedAppend => historyFile' = historyFile]_vars

\* every line of the log was written under the key now in force, or in plaintext
KeysInForce ==
    /\ Len(hisLog) = Len(historyFile.lines)
    /\ \A i \in 1..Len(hisLog) : hisLog[i].key \in {NoKey, getScopeKey(env, "history")}

LoggedEntries == [i \in 1..Len(hisLog) |-> hisLog[i].entry]

\* C10: from an empty log, after N records were appended in order, readHistory(N)
\* returns exactly those N records, newest first.
C10_NewestFirst ==
    (hisCall.op = "read" /\ hisCall.limit = Len(hisLog) /\ KeysInForce)
        => (~hisCall.threw /\ hisCall.items = Reverse(LoggedEntries))

\* two different records were appended, one of them encrypted, and readHistory(2)
\* returned the second before the first
C10_Witness ==
    /\ hisCall.op = "read" /\ hisCall.limit = 2 /\ Len(hisLog) = 2 /\ KeysInForce
    /\ hisLog[1].entry # hisLog[2].entry
    /\ \E i \in 1..2 : IsEnvelope(historyFile.lines[i])
    /\ hisCall.items = <<hisLog[2].entry, hisLog[1].entry>>

\* a read of an absent log returned the empty sequence without error
AbsentReadsEmpty ==
    (hisCall.op = "read" /\ ~historyFile.exists) => (~hisCall.threw /\ hisCall.items = <<>>)

\* this step is a clearHistory call / a call that wrote a line
ClearStep == hisCall'.op = "clear"
WroteLine == hisCall'.op = "append" /\ ~hisCall'.threw /\ Len(historyFile'.lines) = Len(historyFile.lines) + 1

\* C11: while the log file does not exist readHistory returns the empty sequence
\* without error; clearHistory succeeds without error, on an absent file too, and
\* leaves the file absent; the file stays absent until the next append that writes.
C11_AbsentLogIsEmpty ==
    /\ []AbsentReadsEmpty
    /\ [][ClearStep => (~hisCall'.threw /\ ~historyFile'.exists)]_vars
    /\ [][(~historyFile.exists /\ historyFile'.exists) => WroteLine]_vars

\* readHistory with a positive limit returned nothing from an absent log while a key
\* is in force
C11_Witness ==
    /\ hisCall.op = "read" /\ hisCall.limit > 0 /\ ~historyFile.exists
    /\ ~hisCall.threw /\ hisCall.items = <<>>
    /\ getScopeKey(env, "history") # NoKey

\* line i of the log still is what appendHistory wrote, and was written in plaintext
\* or under the key now in force
ValidLine(i) == hisLog[i].key \in {NoKey, getScopeKey(env, "history")}

\* the records of the valid lines among lines a..b, oldest first
RECURSIVE ValidBetween(_, _)
ValidBetween(a, b) ==
    IF a > b THEN <<>>
    ELSE IF a = b THEN (IF ValidLine(a) THEN <<hisLog[a].entry>> ELSE <<>>)
    ELSE ValidBetween(a, (a + b) \div 2) \o ValidBetween((a + b) \div 2 + 1, b)

\* the records of the valid lines among the first n, oldest first
ValidEntries(n) == ValidBetween(1, n)

\* C12: a line that fails to decrypt (wrong or missing key, malformed envelope) or to
\* parse as JSON is dropped without failing the read, and readHistory still returns
\* every valid line in its relative order (newest first), when the limit covers the log.
C12_BadLinesDropped ==
    (hisCall.op = "read" /\ hisCall.limit >= Len(hisLog))
        => (~hisCall.threw /\ hisCall.items = Reverse(ValidEntries(Len(hisLog))))

\* the log holds a line that cannot be read between two valid ones, or before one, and
\* the read returned the valid ones
C12_Witness ==
    /\ hisCall.op = "read" /\ hisCall.limit >= Len(hisLog) /\ Len(hisLog) >= 2
    /\ \E i \in 1..Len(hisLog) : ~ValidLine(i)
    /\ \E i \in 1..Len(hisLog) : ValidLine(i)
    /\ hisCall.items # <<>>

Min(a, b) == IF a < b THEN a ELSE b

\* the last n items of a sequence
LastN(items, n) == SubSeq(items, Len(items) - Min(n, Len(items)) + 1, Len(items))

\* the read returned the most recent `limit` decodable records, newest first
ReturnedMostRecent ==
    /\ ~hisCall.threw
    /\ Len(hisCall.items) = Min(hisCall.limit, Len(ValidEntries(Len(hisLog))))
    /\ hisCall.items = Reverse(LastN(ValidEntries(Len(hisLog)), hisCall.limit))

\* C13 as stated: for every limit >= 0 and every log content readHistory(limit)
\* returns the most recent `limit` decodable records, exactly min(limit, number of
\* decodable records) of them; limit 0 yields the empty sequence.
C13_MostRecentLimit ==
    (hisCall.op = "read" /\ hisCall.limit >= 0) => ReturnedMostRecent

\* the same for every limit >= 1
C13_MostRecentPositiveLimit ==
    (hisCall.op = "read" /\ hisCall.limit >= 1) => ReturnedMostRecent

\* getHistoryStatus().disabled
HistoryDisabled == historyDisabledMessage \notin {HistoryEnabled, ""}

\* C14: once the store is disabled it stays disabled with the same reason whatever is
\* called, and every later appendHistory writes nothing and does not raise.
C14_DisabledForGood ==
    /\ [][HistoryDisabled => historyDisabledMessage' = historyDisabledMessage]_vars
    /\ [][(HistoryDisabled /\ hisCall'.op = "append")
            => (historyFile' = historyFile /\ ~hisCall'.threw)]_vars

\* the store was disabled for want of a key, a key was then set, and an appendHistory
\* call made since returned without writing
C14_Witness ==
    /\ historyDisabledMessage = MissingKeyMessage
    /\ getScopeKey(env, "history") # NoKey
    /\ hisCall.op = "append" /\ ~hisCall.threw
    /\ ~historyFile.exists

\* this step is the first appendHistory call that did not write its record
FirstFailedAppend ==
    /\ hisCall'.op = "append"
    /\ ~HistoryDisabled
    /\ historyFile' = historyFile

\* C15 as stated: appendHistory never raises on a storage failure; the first failure
\* while writing a record, a denial when creating the directory or appending to the
\* file included, disables the store with the reason captured and logs it once.
C15_FailureDisablesQuietly ==
    /\ [][hisCall'.op = "append" => ~hisCall'.threw]_vars
    /\ [][FirstFailedAppend => (HistoryDisabled' /\ hisCall'.logged = 1)]_vars

\* the same for the failures met after the directory was created: the call returns,
\* the store is disabled with the reason captured, and one line is logged
C15_CaughtFailureDisables ==
    [][(FirstFailedAppend /\ ~hisCall'.threw)
         => (HistoryDisabled' /\ hisCall'.logged = 1
               /\ historyDisabledMessage' \in {MissingKeyMessage, FsErrorMessage})]_vars

IsPrefix(s, t) == Len(s) <= Len(t) /\ SubSeq(t, 1, Len(s)) = s

\* this step is an appendHistory that found the store enabled, returned, and left it
\* enabled
SuccessfulAppend ==
    /\ hisCall'.op = "append" /\ ~hisCall'.threw
    /\ ~HistoryDisabled /\ ~HistoryDisabled'

\* C16: across appendHistory, readHistory and getLastThread calls the log before the
\* call is a prefix of the log after it, a successful append adds exactly one line and
\* no other call adds any; only clearHistory removes lines, and it removes them all.
C16_AppendOnly ==
    /\ [][hisCall'.op \in {"append", "read", "last"}
            => /\ IsPrefix(historyFile.lines, historyFile'.lines)
               /\ historyFile.exists => historyFile'.exists
               /\ Len(historyFile'.lines) <= Len(historyFile.lines) + 1]_vars
    /\ [][SuccessfulAppend => Len(historyFile'.lines) = Len(historyFile.lines) + 1]_vars
    /\ [][hisCall'.op \in {"read", "last"} => historyFile' = historyFile]_vars
    /\ [][hisCall'.op = "clear" => historyFile' = NoHistoryFile]_vars

\* a second record was appended behind the first, which is still there
C16_Witness ==
    /\ hisCall.op = "append" /\ ~hisCall.threw /\ ~HistoryDisabled
    /\ Len(historyFile.lines) = 2 /\ Len(hisLog) = 2
    /\ historyFile.lines[1] # historyFile.lines[2]

\* the 200 most recent decodable records, oldest first
ScanWindow == LastN(ValidEntries(Len(hisLog)), SCAN_LIMIT)

Qualifies(entry, profile) == entry.profile = profile /\ entry.threadId \notin {NoThread, ""}

\* C17: getLastThread(profile) returns the thread id of the newest record, among the
\* 200 most recent decodable records, that has the profile and a non-empty thread id,
\* and none when no record of those 200 qualifies, even if an older one does.
C17_LastThreadInWindow ==
    hisCall.op = "last" =>
        LET q == {i \in 1..Len(ScanWindow) : Qualifies(ScanWindow[i], hisCall.profile)}
        IN IF q = {} THEN hisCall.thread = NoLastThread
           ELSE hisCall.thread = ScanWindow[CHOOSE i \in q : \A j \in q : j <= i].threadId

\* the oldest record qualifies but lies beyond the 200 most recent, none of which
\* does, and getLastThread returned none
C17_Witness ==
    /\ hisCall.op = "last" /\ hisCall.thread = NoLastThread
    /\ Len(hisLog) > SCAN_LIMIT
    /\ Qualifies(hisLog[1].entry, hisCall.profile)
    /\ \A i \in 1..Len(ScanWindow) : ~Qualifies(ScanWindow[i], hisCall.profile)

(***************************************************************************)
(* Profiles                                                                *)
(***************************************************************************)
\* what is stored: the content of config.json, or the default when it is absent
Stored == readRawConfig(configFile)

\* this step is deleteProfile(name)
DeleteStep == cfgCall'.op = "delete"

\* the profile is the designated default, or is not among the stored profiles
Undeletable(name) == name = Stored.defaultProfile \/ name \notin DOMAIN Stored.profiles

\* C18 as stated: deleteProfile(name) fails when name is the designated default or does
\* not exist, leaving the stored config unchanged; otherwise it removes exactly that
\* profile and nothing else.
C18_DeleteProfile ==
    /\ [][(DeleteStep /\ Undeletable(cfgCall'.profile))
            => (cfgCall'.threw /\ configFile' = configFile)]_vars
    /\ [][(DeleteStep /\ ~Undeletable(cfgCall'.profile))
            => /\ ~cfgCall'.threw
               /\ configFile'.exists
               /\ configFile'.defaultProfile = Stored.defaultProfile
               /\ configFile'.profiles =
                     [n \in (DOMAIN Stored.profiles) \ {cfgCall'.profile} |-> Stored.profiles[n]]]_vars

\* the same for names that are not properties of Object.prototype
C18_DeleteOwnNames ==
    /\ [][(DeleteStep /\ cfgCall'.profile \notin ObjectPrototype /\ Undeletable(cfgCall'.profile))
            => (cfgCall'.threw /\ configFile' = configFile)]_vars
    /\ [][(DeleteStep /\ ~Undeletable(cfgCall'.profile))
            => /\ ~cfgCall'.threw
               /\ configFile'.exists
               /\ configFile'.defaultProfile = Stored.defaultProfile
               /\ configFile'.profiles =
                     [n \in (DOMAIN Stored.profiles) \ {cfgCall'.profile} |-> Stored.profiles[n]]]_vars

\* C19 as stated: after any sequence of setConfigValue, createProfile and deleteProfile
\* calls from an absent config file, the stored config designates one default profile
\* and that name is a key of the stored profiles.
C19_DefaultIsStored == Stored.defaultProfile \in DOMAIN Stored.profiles

\* the same while the designated name is not a property of Object.prototype
C19_DefaultIsStoredOwnNames ==
    Stored.defaultProfile \notin ObjectPrototype => Stored.defaultProfile \in DOMAIN Stored.profiles

\* C20 as stated: resolveProfile(loadConfig(), name) fails with the profile-not-found
\* error for every requested name, or default name when none is requested, that is
\* absent from the stored profiles; so after deleteProfile(name) succeeded resolving
\* name fails until the profile is created again.
C20_AbsentProfileNotResolved ==
    (cfgCall.op = "resolve" /\ cfgCall.profile \notin DOMAIN Stored.profiles) => cfgCall.threw

\* the same for names other than "default" and the properties of Object.prototype
C20_AbsentOtherNamesNotResolved ==
    (cfgCall.op = "resolve" /\ cfgCall.profile \notin DOMAIN Stored.profiles
        /\ cfgCall.profile \notin ObjectPrototype \cup DOMAIN DEFAULT_CONFIG.profiles)
        => cfgCall.threw

(***************************************************************************)
(* Key names                                                               *)
(***************************************************************************)
CanonicalAttributes == DOMAIN DEFAULT_PROFILE

StoredAttributes == UNION {DOMAIN Stored.profiles[n] : n \in DOMAIN Stored.profiles}

\* C21 as stated: setConfigValue normalises every key name it is given to a member of
\* {apiKey, projectId, integrationId, baseUrl, stream, temperature, defaultProfile},
\* and after any sequence of setConfigValue calls no profile in the config file has
\* an attribute outside the canonical profile attributes.
C21_KeysCanonical ==
    /\ cfgCall.op = "set" => cfgCall.key \in CanonicalAttributes \cup {"defaultProfile"}
    /\ StoredAttributes \subseteq CanonicalAttributes

\* what holds instead: an attribute outside the canonical ones is a key name that was
\* given and is no alias
C21_UnknownNamesPassThrough ==
    /\ cfgCall.op = "set" => cfgCall.key \in CanonicalAttributes \cup {"defaultProfile", "foo"}
    /\ StoredAttributes \subseteq CanonicalAttributes \cup {"foo"}

(***************************************************************************)
(* sendChat: endpoint, validation, response branching, cancellation        *)
(***************************************************************************)
\* {base}: the configured base URL, or the default, without one trailing slash
C22_Base ==
    LET given == send.options.baseUrl
        url == IF given.t = "string" /\ given.a # <<>> THEN given ELSE DEFAULT_BASE_URL
    IN IF url.a[Len(url.a)] = "/" THEN SubSeq(url.a, 1, Len(url.a) - 1) ELSE url.a

Present(v) == v.t = "string" /\ v.s # ""

\* C22: once sendChat has issued its request, the endpoint is
\* {base}/threads/{threadId}/chat/ when a thread id is present, whether or not a
\* project id is given, and otherwise {base}/projects/{projectId}/chat/, with a
\* project id present.
C22_EndpointSelection ==
    send.requests > 0 =>
        IF Present(send.options.threadId)
        THEN send.endpoint = C22_Base \o <<"/threads/", send.options.threadId.s, "/chat/">>
        ELSE /\ Present(send.options.projectId)
             /\ send.endpoint = C22_Base \o <<"/projects/", send.options.projectId.s, "/chat/">>

C22_Witness ==
    /\ send.requests > 0
    /\ Present(send.options.threadId)
    /\ Present(send.options.projectId)
    /\ send.options.baseUrl.a = <<"https://h/v1", "/">>
    /\ send.endpoint = <<"https://h/v1", "/threads/", "t1", "/chat/">>

C23_ConstructionErrors ==
    {"Missing KAPA API key.", "Missing integration id.",
     "A project id is required to start a new conversation."}

C23_CannotBuildRequest ==
    \/ ~Present(send.options.apiKey)
    \/ ~Present(send.options.integrationId)
    \/ ~Present(send.options.threadId) /\ ~Present(send.options.projectId)

\* C23: when the credential, the integration id, or both the thread id and the
\* project id are absent, sendChat issues no HTTP request and ends with a
\* request-construction error; in every other case it issues exactly one request,
\* whatever happens afterwards.
C23_RequestIssuedOnce ==
    send.pc \notin {"idle", "called"} =>
        IF C23_CannotBuildRequest
        THEN /\ send.requests = 0
             /\ send.pc = "done"
             /\ send.result.threw
             /\ send.result.message \in C23_ConstructionErrors
             /\ send.response = NoResponse
        ELSE send.requests = 1

C23_Witness ==
    /\ send.pc = "done"
    /\ Present(send.options.apiKey)
    /\ Present(send.options.integrationId)
    /\ ~Present(send.options.threadId) /\ ~Present(send.options.projectId)
    /\ send.requests = 0
    /\ send.result.message = "A project id is required to start a new conversation."

C23_WitnessOneRequest ==
    /\ send.pc = "done"
    /\ send.requests = 1
    /\ send.result.threw
    /\ send.result.message = "Kapa API error"

C24_StreamingRequestedAndOffered ==
    /\ send.options.stream
    /\ \E i \in 1..Len(send.response.contentType) :
           send.response.contentType[i] = "text/event-stream"

\* C24: for a successful response, the body is decoded as an event stream (the
\* decoder runs, the result has streamed = true) exactly when streaming was
\* requested and the content-type indicates text/event-stream; in every other
\* combination the body is parsed as one JSON document, the result has
\* streamed = false and no event is given to the callback.
C24_StreamBranch ==
    send.response.ok =>
        IF C24_StreamingRequestedAndOffered
        THEN /\ ssePc # "idle"
             /\ send.pc = "done" /\ ~send.result.threw =>
                    /\ send.result.streamed
                    /\ send.result.data = sseResult
        ELSE /\ ssePc = "idle"
             /\ events = <<>>
             /\ send.pc = "done"
             /\ ~send.result.streamed
             /\ ~send.result.threw => send.result.data = JsonParse(BodyText(send.response)).v

C24_Witness ==
    /\ send.pc = "done"
    /\ send.response.ok
    /\ send.result.streamed
    /\ Len(events) = 2
    /\ send.response.contentType = <<"text/event-stream", "; charset=utf-8">>

C24_WitnessBuffered ==
    /\ send.pc = "done"
    /\ send.response.ok
    /\ send.options.stream
    /\ send.response.contentType = <<"application/json">>
    /\ send.result.data = Obj([answer |-> Str("S")])

C25_InvalidJsonBuffered ==
    /\ send.pc = "done"
    /\ send.response.ok
    /\ ~C24_StreamingRequestedAndOffered
    /\ ~JsonParse(BodyText(send.response)).ok

\* C25 as stated: when a successful non-streamed body is not valid JSON, sendChat
\* fails with the 'Unexpected response payload' error whose message carries the
\* first 400 characters of the body.
C25_SnippetOfRawBody ==
    C25_InvalidJsonBuffered =>
        /\ send.result.threw
        /\ send.result.error = "Error"
        /\ send.result.message = "Unexpected response payload"
        /\ send.result.snippet.len = Min(BodyLength(send.response), 400)

\* C25, what the code does: the failed response.json() has consumed the body, so
\* the response.text() in the catch handler rejects, and sendChat fails with that
\* TypeError, which carries no part of the body.
C25_BodyUnusableAfterJson ==
    C25_InvalidJsonBuffered =>
        /\ send.result.threw
        /\ send.result.error = "TypeError"
        /\ send.result.snippet = NoSnippet

C25_Witness ==
    /\ C25_InvalidJsonBuffered
    /\ BodyLength(send.response) > 400

\* the events of the run that reads the whole body without cancellation
C26_UncancelledEvents ==
    Drain([buffer |-> Wire(blocks) \o tail, lastPayload |-> Null, combinedText |-> "",
           events |-> <<>>, returned |-> FALSE, via |-> "", result |-> Undefined]).events

\* C26: once the cancellation signal has fired during the decoding of an event
\* stream, nothing more is read and no event is given to the callback; sendChat ends
\* with the AbortError; and the events given before are a prefix of the events of
\* the uncancelled run.
C26_CancellationStopsDelivery ==
    /\ [](/\ send.aborted /\ send.pc = "done" =>
                /\ send.result.threw
                /\ send.result.error = "AbortError"
                /\ ssePc \in {"idle", "threw"}
          /\ send.pc \in {"streaming", "done"} => IsPrefix(events, C26_UncancelledEvents))
    /\ [][send.aborted => events' = events /\ body' = body /\ ssePc' \in {ssePc, "threw"}]_vars

C26_Witness ==
    /\ send.aborted
    /\ send.pc = "done"
    /\ ssePc = "threw"
    /\ Len(events) = 1
    /\ Len(C26_UncancelledEvents) = 2
    /\ body # <<>>

(***************************************************************************)
(* normalizeResponse                                                       *)
(***************************************************************************)
\* present and non-empty: neither missing, nor null, nor '', nor []
C27_NonEmpty(v) == v.t \notin {"undefined", "null"} /\ v # Str("") /\ v # Arr(<<>>)

\* the first candidate that satisfies the test, else the default
RECURSIVE C27_First(_, _, _)
C27_First(candidates, nonEmptyOnly, default) ==
    IF candidates = <<>> THEN default
    ELSE IF (IF nonEmptyOnly THEN C27_NonEmpty(Head(candidates)) ELSE Truthy(Head(candidates)))
    THEN Head(candidates)
    ELSE C27_First(Tail(candidates), nonEmptyOnly, default)

C27_ArrayOrEmpty(v) == IF v.t = "array" THEN v ELSE Arr(<<>>)

C27_Selects(nonEmptyOnly) ==
    normCall.pc = "returned" =>
        LET p == normCall.payload
            r == normCall.result
        IN /\ r.answer = C27_First(AnswerCandidates(p), nonEmptyOnly, Str(""))
           /\ r.citations =
                  C27_ArrayOrEmpty(C27_First(CitationsCandidates(p), nonEmptyOnly, Arr(<<>>)))
           /\ r.followUps =
                  C27_ArrayOrEmpty(C27_First(FollowUpsCandidates(p), nonEmptyOnly, Arr(<<>>)))

\* C27 as stated: each of answer, citations and followUps is the first candidate,
\* in the fixed order, that is present and non-empty (an empty string or an empty
\* array does not count), and citations and followUps that are then absent or not
\* arrays are empty sequences.
C27_FirstNonEmptyCandidate == C27_Selects(TRUE)

\* C27, what the code does: each attribute is the first truthy candidate, and an
\* empty array is truthy.
C27_FirstTruthyCandidate == C27_Selects(FALSE)

C27_Witness ==
    /\ normCall.pc = "returned"
    /\ Opt(Qa(normCall.payload), "citations") = Arr(<<>>)
    /\ Opt(normCall.payload, "citations") = Arr(<<Cite("u2")>>)

\* C28: normalizeResponse returns for every payload, leaves the payload as it was,
\* returns it as raw, and on {} gives an empty answer, empty citations and
\* followUps, and undefined threadId and questionAnswerId.
C28_TotalAndPure ==
    /\ [](/\ normCall.pc = "called" => ENABLED Normalize
          /\ normCall.pc = "returned" =>
                /\ normCall.result.raw = normCall.payload
                /\ normCall.payload = Obj(NoFields) =>
                       normCall.result =
                           [answer |-> Str(""), citations |-> Arr(<<>>), followUps |-> Arr(<<>>),
                            threadId |-> Undefined, questionAnswerId |-> Undefined,
                            raw |-> Obj(NoFields)])
    /\ [][normCall'.payload = normCall.payload]_vars

C28_Witness ==
    /\ normCall.pc = "returned"
    /\ normCall.payload = Obj(NoFields)

C28_WitnessNull ==
    /\ normCall.pc = "returned"
    /\ normCall.payload = Null
    /\ normCall.result.raw = Null

(***************************************************************************)
(* key resolution and freshness                                            *)
(***************************************************************************)
C29_Sources(scope) ==
    IF scope = "config" THEN <<"KAPA_VAULT_KEY", "KAPA_CONFIG_SECRET">>
    ELSE <<"KAPA_HISTORY_KEY", "KAPA_VAULT_KEY", "KAPA_CONFIG_SECRET">>

C29_Empty(v) == v \in {Unset, ""}
C29_Blank(v) == v \in {Unset, "", " "}

\* the key is the value of the first source that does not count as missing
C29_FirstSourceWins(Missing(_)) ==
    secCall.op = "key" =>
        LET names == C29_Sources(secCall.scope)
        IN /\ secCall.key = NoKey <=> \A i \in 1..Len(names) : Missing(env[names[i]])
           /\ secCall.key # NoKey =>
                  \E i \in 1..Len(names) :
                      /\ secCall.key = env[names[i]]
                      /\ ~Missing(env[names[i]])
                      /\ \A j \in 1..(i - 1) : Missing(env[names[j]])

\* C29 as stated: the key of a scope is the value of the first source of its list
\* that is neither unset nor empty; a later source is used only when every earlier
\* one is unset or empty, and there is no key only when all are.
C29_FirstNonEmptySource == C29_FirstSourceWins(C29_Empty)

\* C29, amended: the same with a source that holds only white space counted as
\* missing too.
C29_FirstNonBlankSource == C29_FirstSourceWins(C29_Blank)

C29_Witness ==
    /\ secCall.op = "key"
    /\ secCall.scope = "history"
    /\ env["KAPA_HISTORY_KEY"] = ""
    /\ env["KAPA_VAULT_KEY"] = " "
    /\ env["KAPA_CONFIG_SECRET"] = "k2"
    /\ secCall.key = "k2"

C29_WitnessFirst ==
    /\ secCall.op = "key"
    /\ secCall.scope = "config"
    /\ env["KAPA_VAULT_KEY"] = "k1"
    /\ env["KAPA_CONFIG_SECRET"] = "k2"
    /\ secCall.key = "k1"

\* C30: two encodeSecret calls that encrypt the same plaintext under the same key
\* return different envelopes, each call having drawn its own salt and nonce.
C30_FreshEnvelopes ==
    \A r1 \in secIssued : \A r2 \in secIssued :
        (r1 # r2 /\ r1.value = r2.value /\ r1.key = r2.key) =>
            /\ r1.out # r2.out
            /\ r1.salt # r2.salt
            /\ r1.iv # r2.iv
            /\ isEncryptedValue(r1.out) /\ isEncryptedValue(r2.out)

C30_Witness ==
    \E r1 \in secIssued : \E r2 \in secIssued :
        /\ r1 # r2
        /\ r1.value = r2.value
        /\ r1.key = r2.key
        /\ secCall.op = "encode"
        /\ secCall.out = r2.out

(***************************************************************************)
(* maskSecret                                                              *)
(***************************************************************************)
C31_Masked == secCall.op = "mask" /\ secCall.value.text # <<>>

\* the first two and the last two characters, around the ellipsis
C31_TwoAndTwo(secret) ==
    LET n == Len(secret)
    IN (IF n >= 2 THEN <<secret[1], secret[2]>> ELSE secret) \o <<ELLIPSIS>>
           \o (IF n >= 2 THEN <<secret[n - 1], secret[n]>> ELSE secret)

\* some other secret has the same masked form
C31_Ambiguous ==
    LET secret == secCall.value.text
        longer == {SubSeq(secret, 1, 2) \o <<c>> \o SubSeq(secret, Len(secret) - 1, Len(secret)) :
                      c \in SecretChars}
    IN \E other \in Secrets \cup (IF Len(secret) >= 2 THEN longer ELSE {}) :
           other # secret /\ maskSecret(other) = secCall.out.text

\* C31 as stated: the masked form of a non-empty secret is its first two characters,
\* an ellipsis and its last two characters, and the secret cannot be reconstructed
\* from it, whatever its length.
C31_MaskHidesSecret ==
    C31_Masked =>
        /\ secCall.out.text = C31_TwoAndTwo(secCall.value.text)
        /\ C31_Ambiguous

\* C31, what the code does: the masked form is as stated, and it leaves a character
\* out only for secrets of five characters or more.
C31_MaskHidesLongSecrets ==
    C31_Masked =>
        /\ secCall.out.text = C31_TwoAndTwo(secCall.value.text)
        /\ Len(secCall.value.text) >= 5 <=> Len(secCall.out.text) < Len(secCall.value.text) + 1
        /\ Len(secCall.value.text) >= 2 => C31_Ambiguous
        /\ Len(secCall.value.text) = 1 => ~C31_Ambiguous

C31_Witness ==
    /\ C31_Masked
    /\ secCall.value.text = <<"s", "k", "-", "u", "n", "i", "t">>
    /\ secCall.out.text = <<"s", "k", ELLIPSIS, "i", "t">>

(***************************************************************************)
(* consumeSse: the retained payload, chunking, the incomplete last block   *)
(***************************************************************************)
\* the events whose payload passes `typeof parsedPayload === 'object'`
C32_TypeofObjectEvents == {i \in 1..Len(events) : TypeofObject(events[i].payload)}

C32_LastTypeofObjectPayload ==
    IF C32_TypeofObjectEvents = {} THEN Null
    ELSE events[CHOOSE i \in C32_TypeofObjectEvents :
                    \A j \in C32_TypeofObjectEvents : j <= i].payload

\* C32 as stated: while decoding, the retained payload is the payload of the most
\* recent block whose data parsed to a JSON object (none retained before the first);
\* a block whose payload is a raw string, a number, null or missing leaves it as it is.
C32_RetainedIsLastObject ==
    ssePc = "reading" =>
        lastPayload = IF ObjectEvents = {} THEN Null ELSE LastObjectPayload

\* C32, what the code does: a block whose data is the JSON null passes the typeof
\* test too, and clears the retained payload.
C32_RetainedIsLastTypeofObject ==
    ssePc = "reading" => lastPayload = C32_LastTypeofObjectPayload

C32_Witness ==
    /\ ssePc = "reading"
    /\ ObjectEvents # {}
    /\ events[Len(events)].payload = Null
    /\ lastPayload = Null

C33_WitnessInjected ==
    /\ ssePc = "returned"
    /\ Get(C32_LastTypeofObjectPayload, "answer") = Undefined
    /\ Get(sseResult, "answer") = Str("a")

\* the decoding of a body handed over in one chunk
C35_OneChunk(wire) ==
    Drain([buffer |-> wire, lastPayload |-> Null, combinedText |-> "",
           events |-> <<>>, returned |-> FALSE, via |-> "", result |-> Undefined])

C35_Returned(run) ==
    IF run.returned THEN run.result ELSE AtEof(run.lastPayload, run.combinedText)

\* C35: whatever the chunks the body arrives in, the events given to the callback
\* and the returned payload are those of the body arriving in one chunk.
C35_ChunkingIndependent ==
    /\ IsPrefix(events, C35_OneChunk(Wire(blocks) \o tail).events)
    /\ ssePc = "returned" =>
           /\ events = C35_OneChunk(Wire(blocks) \o tail).events
           /\ sseResult = C35_Returned(C35_OneChunk(Wire(blocks) \o tail))

C35_Witness ==
    /\ ssePc = "returned"
    /\ blocks = <<"msgB", "msgA", "ans">>
    /\ Len(events) = 3
    /\ Get(sseResult, "answer") = Str("S")

\* C36: when the stream ends, what is left in the buffer without a closing blank
\* line gives no event and adds nothing to the accumulated text or to the returned
\* payload: the outcome is that of the body without it.
C36_IncompleteBlockDiscarded ==
    (ssePc = "returned" /\ sseVia = "eof") =>
        /\ events = C35_OneChunk(Wire(blocks)).events
        /\ combinedText = C35_OneChunk(Wire(blocks)).combinedText
        /\ sseResult = C35_Returned(C35_OneChunk(Wire(blocks)))
        /\ buffer = tail

C36_Witness ==
    /\ ssePc = "returned"
    /\ sseVia = "eof"
    /\ tail = <<"data:", "{\"text\":\"z\"}", NL>>
    /\ buffer = tail
    /\ Delivered = "a"

(***************************************************************************)
(* encodeSecret: key before plaintext authorisation                        *)
(***************************************************************************)
C37_EncodedNonEmpty == secCall.op = "encode" /\ secCall.value # EmptyStr

\* C37: with a key resolvable for the scope, encodeSecret of a non-empty value
\* returns an envelope encrypted under that key, whether or not the scope's
\* allow-plaintext variable is "1"; the value comes back as it was given only when
\* no key is resolvable.
C37_KeyBeforePlaintext ==
    C37_EncodedNonEmpty =>
        /\ secCall.key # NoKey =>
               /\ ~secCall.threw
               /\ isEncryptedValue(secCall.out)
               /\ Len(secCall.out.fields) = 4
               /\ decryptWithKey(secCall.out, secCall.key) =
                      Returned(Utf8Decode(Utf8Encode(secCall.value)))
        /\ (~secCall.threw /\ secCall.out = secCall.value) => secCall.key = NoKey

C37_Witness ==
    /\ C37_EncodedNonEmpty
    /\ secCall.key = "k1"
    /\ env[ALLOW_PLAINTEXT_ENV(secCall.scope)] = "1"
    /\ isEncryptedValue(secCall.out)
    /\ secCall.value = Plain(<<"a", "b">>)

(***************************************************************************)
(* The interactive session: requests outstanding                           *)
(***************************************************************************)
\* every line is a chunk of its own: each was typed after the prompt came back
TypedLines == \A k \in DOMAIN session.input : session.input[k].last

\* C34: in the interactive session at most one handleAsk call is outstanding at any
\* time, whatever the sequence and timing of the 'line' events.
C34_OneOutstanding == Cardinality(Outstanding(session)) <= 1

\* what the code guarantees: one outstanding call when no two lines share a chunk
C34_OneOutstandingTypedLines == TypedLines => Cardinality(Outstanding(session)) <= 1

(***************************************************************************)
(* handleAsk: the history record                                           *)
(***************************************************************************)
C38_Appended(a) == a.appends >= 1

\* C38: a handleAsk call appends a history record at most once, and only after
\* sendChat has returned successfully: a call whose sendChat failed (construction
\* error, API error, cancellation), that has not got its response yet, or that runs
\* with history switched off, has appended nothing, and the file holds no more lines
\* than the calls that appended.
C38_AppendOnceAfterSuccess ==
    /\ \A i \in DOMAIN session.asks :
           LET a == session.asks[i]
           IN /\ a.appends <= 1
              /\ C38_Appended(a) => /\ a.sent
                                    /\ a.returned \in ReturnedThreads
                                    /\ a.outcome \in {"ok", "history"}
                                    /\ a.pc \in {"resolved", "rejected", "done"}
                                    /\ session.history
              /\ a.outcome \in {"construction", "api", "abort", "project"} => ~C38_Appended(a)
              /\ a.pc \in {"called", "sending", "responded"} => ~C38_Appended(a)
              /\ ~session.history => ~C38_Appended(a)
    /\ Len(historyFile.lines)
           <= Cardinality({i \in DOMAIN session.asks : C38_Appended(session.asks[i])})
    /\ Len(hisLog) = Len(historyFile.lines)

C38_Witness ==
    /\ session.asks # <<>>
    /\ session.asks[1].pc = "resolved"
    /\ session.asks[1].outcome = "ok"
    /\ session.asks[1].appends = 1
    /\ Len(historyFile.lines) = 1

(***************************************************************************)
(* The interactive session: the thread id                                  *)
(***************************************************************************)
\* C39: each request is sent with the current thread id; a successful request sets
\* the current thread id to the id it returned and keeps the old one if none was
\* returned; a failed request leaves it unchanged; the first request after /reset is
\* sent with no thread id.
C39_ThreadCarried ==
    \A i \in DOMAIN session.asks :
        LET a == session.asks[i]
        IN /\ a.sent => a.thread = a.currentAtSend
           /\ (a.pc = "done" /\ a.outcome = "ok")
                  => a.after = (IF a.returned # NoThread THEN a.returned ELSE a.before)
           /\ (a.pc = "done" /\ a.outcome # "ok") => a.after = a.before
           /\ a.afterReset => a.thread = NoThread

\* what the code guarantees: the same, when no two lines share a chunk
C39_ThreadCarriedTypedLines == TypedLines => C39_ThreadCarried

\* and in every session: a call takes the thread id current when its line arrived, and
\* its handler leaves the result's thread id, or the id it found, behind
C39_HandlerAssignment ==
    \A i \in DOMAIN session.asks :
        LET a == session.asks[i]
        IN a.pc = "done" =>
               a.after = (IF a.outcome = "ok" /\ ResultThreadId(a.returned, a.thread) # NoThread
                          THEN ResultThreadId(a.returned, a.thread) ELSE a.before)

====
